---- MODULE Spec2Model ----
(***************************************************************************)
(* Event-to-notification decision engine of the PR notification app:      *)
(* the ready-to-merge evaluator with its in-memory dedup map, the         *)
(* recipient resolver, the notification gate and the per-recipient        *)
(* dispatch, as webhook handlers interleaving at their await points.      *)
(***************************************************************************)
EXTENDS Integers, Sequences, FiniteSets, TLC

\* ------------------------------------------------------------------ bounds
MaxTasks == 2
MaxTicks == 3
MaxPR == 1
MaxList == 2
MaxChecks == 3

\* ------------------------------------------------------- program constants
\* 30 * 60 * 1000 in isRecentEvent: the ready-to-merge dedup window (ms).
recentTime == 30 * 60 * 1000
\* 5 * 60 * 1000 in handleCheckRun: the check-run event window (ms).
fiveMinutes == 5 * 60 * 1000
\* Granularity of the modelled clock: Date.now() advances in steps of 15 min.
TickMs == 15 * 60 * 1000

\* ------------------------------------------------------------- value sets
Tasks == 1..MaxTasks
Times == {k * TickMs : k \in 0..MaxTicks}
NoTime == 0 - 1
Repos == {"r1", "r2"}
PRNumbers == 1..MaxPR
\* mergeable_state values of the GitHub API (null as the string "null").
MergeableStates ==
  {"clean", "unstable", "dirty", "blocked", "behind", "unknown", "divergent", "has_hooks", "null"}
ApiError == "api_error"
NoEmail == "no_email"
NoList == <<"null">>
Undefined == "undefined"

Users == {"alice", "bob", "carol"}
\* The address GitHub's public profile gives for a login, when it gives one.
EmailOf(u) ==
  CASE u = "alice" -> "alice@x.io"
    [] u = "bob" -> "bob@x.io"
    [] OTHER -> "carol@x.io"
Emails == {EmailOf(u) : u \in Users} \cup {"lead@x.io"}
\* What users.getByUsername yields for each login: an address, or no address.
Directories == {d \in [Users -> Emails \cup {NoEmail}] : \A u \in Users : d[u] \in {EmailOf(u), NoEmail}}

\* --------------------------------------------------------- sequence helpers
Range(s) == {s[i] : i \in 1..Len(s)}
Includes(s, x) == \E i \in 1..Len(s) : s[i] = x
\* Array.prototype.filter(e => !recipients.includes(e))
FilterNotIn(s, recipients) == SelectSeq(s, LAMBDA e : ~Includes(recipients, e))
\* Insertion order of a JavaScript Set built by add() over s.
RECURSIVE SetOrder(_)
SetOrder(s) ==
  IF s = <<>> THEN <<>>
  ELSE LET init == SetOrder(SubSeq(s, 1, Len(s) - 1))
           last == s[Len(s)]
       IN IF Includes(init, last) THEN init ELSE Append(init, last)
NoDuplicates(s) == \A i, j \in 1..Len(s) : i # j => s[i] # s[j]
SeqsUpTo(S, n) == UNION {[1..k -> S] : k \in 0..n}

\* ------------------------------------------------------------ configuration
Categories == {"lifecycle", "reviews", "comments", "check_results", "updates", "deployments"}
Switches == Categories \cup {"ready_to_merge", "additional_recipients"}
Envs == [Switches -> BOOLEAN]

\* Event types and actions a gate may be asked about ("null": no action).
EventTypes ==
  {"pull_request", "pull_request_review", "pull_request_review_comment", "issue_comment",
   "check_run", "check_suite", "deployment", "deployment_status", "push", "status"}
Actions ==
  {"opened", "closed", "reopened", "synchronize", "edited", "ready_for_review",
   "review_requested", "ready_to_merge", "submitted", "dismissed", "created", "completed",
   "success", "null"}

\* A category table whose default lets unrecognised pairs through.
isEventEnabled_FailOpen(env, eventType, action) ==
  IF eventType = "pull_request" /\ action \in {"opened", "closed", "reopened"}
    THEN env["lifecycle"]
  ELSE IF eventType = "pull_request_review" /\ action \in {"submitted", "dismissed"}
    THEN env["reviews"]
  ELSE IF (eventType = "issue_comment" /\ action = "created")
          \/ (eventType = "pull_request_review_comment" /\ action = "created")
    THEN env["comments"]
  ELSE IF (eventType = "check_run" /\ action = "completed")
          \/ (eventType = "check_suite" /\ action = "completed")
    THEN env["check_results"]
  ELSE IF eventType = "pull_request"
          /\ action \in {"synchronize", "edited", "ready_for_review", "review_requested"}
    THEN env["updates"]
  ELSE IF eventType = "deployment" \/ eventType = "deployment_status"
    THEN env["deployments"]
  ELSE TRUE

\* AppConfig.isEventEnabled: the category of an event/action pair decides;
\* env[c] stands for process.env.NOTIFY_<c> === 'true'.
isEventEnabled(env, eventType, action) ==
  IF eventType = "pull_request" /\ action \in {"opened", "closed", "reopened"}
    THEN env["lifecycle"]
  ELSE IF eventType = "pull_request_review" /\ action \in {"submitted", "dismissed"}
    THEN env["reviews"]
  ELSE IF (eventType = "issue_comment" /\ action = "created")
          \/ (eventType = "pull_request_review_comment" /\ action = "created")
    THEN env["comments"]
  ELSE IF (eventType = "check_run" /\ action = "completed")
          \/ (eventType = "check_suite" /\ action = "completed")
    THEN env["check_results"]
  ELSE IF eventType = "pull_request"
          /\ action \in {"synchronize", "edited", "ready_for_review", "review_requested"}
    THEN env["updates"]
  ELSE IF eventType = "deployment" \/ eventType = "deployment_status"
    THEN env["deployments"]
  ELSE FALSE

\* AppConfig.isNotificationEnabled: the category table plus the separate
\* switch of the synthesized pull_request.ready_to_merge notification.
isNotificationEnabled(env, eventType, action) ==
  IF eventType = "pull_request" /\ action = "ready_to_merge"
    THEN env["ready_to_merge"]
    ELSE isEventEnabled(env, eventType, action)

\* NotificationValidator.shouldSendNotification
shouldSendNotification(env, eventType, action) ==
  isNotificationEnabled(env, eventType, action)

\* AppConfig.includeAdditionalRecipients: the NOTIFY_ADDITIONAL_RECIPIENTS flag.
includeAdditionalRecipients(env) == env["additional_recipients"]

\* ----------------------------------------------------------- status display
\* null, as a status, a conclusion or an emoji override.
Null == "null"
\* A display entry; emoji are written by name.
Display(status, emoji, color) == [status |-> status, emoji |-> emoji, color |-> color]
\* STATUS_MAPPINGS as the module exports it.
STATUS_MAPPINGS ==
  [success |-> Display("SUCCESS", "check_mark", "#28a745"),
   failure |-> Display("FAILURE", "cross_mark", "#dc3545"),
   cancelled |-> Display("CANCELLED", "stop_button", "#6c757d"),
   timed_out |-> Display("TIMED OUT", "alarm_clock", "#fd7e14"),
   action_required |-> Display("ACTION REQUIRED", "warning", "#ffc107"),
   neutral |-> Display("NEUTRAL", "information", "#17a2b8"),
   skipped |-> Display("SKIPPED", "next_track", "#6c757d"),
   pending |-> Display("PENDING", "arrows", "#007bff"),
   queued |-> Display("QUEUED", "clipboard", "#007bff"),
   in_progress |-> Display("IN PROGRESS", "arrows", "#007bff"),
   completed |-> Display("COMPLETED", "check_mark", "#28a745"),
   opened |-> Display("OPENED", "party_popper", "#28a745"),
   edited |-> Display("EDITED", "pencil", "#0366d6"),
   closed |-> Display("CLOSED", "cross_mark", "#dc3545"),
   merged |-> Display("MERGED", "party_popper", "#6f42c1"),
   reopened |-> Display("REOPENED", "arrows", "#0366d6"),
   synchronize |-> Display("UPDATED", "arrows", "#0366d6"),
   ready_for_review |-> Display("READY FOR REVIEW", "eyes", "#28a745"),
   review_requested |-> Display("REVIEW REQUESTED", "busts", "#0366d6"),
   ready_to_merge |-> Display("READY TO MERGE", "rocket", "#28a745"),
   submitted |-> Display("SUBMITTED", "memo", "#0366d6"),
   dismissed |-> Display("DISMISSED", "prohibited", "#dc3545"),
   created |-> Display("CREATED", "speech_balloon", "#0366d6"),
   push |-> Display("PUSHED", "memo", "#0366d6")]
\* String.prototype.toUpperCase on the keys that are not in the table.
toUpperCase ==
  [stale |-> "STALE", approved |-> "APPROVED", changes_requested |-> "CHANGES_REQUESTED",
   startup_failure |-> "STARTUP_FAILURE", UNKNOWN |-> "UNKNOWN"]
\* A string or null taken as a condition: null and "" are falsy.
Truthy(x) == x # Null /\ x # ""

\* A formatter that labels every key outside the table UNKNOWN.
formatStatus_AlwaysUnknown(table, status, conclusion, emojiOverride) ==
  LET key == IF Truthy(conclusion) THEN conclusion ELSE status
      found == key \in DOMAIN table
      result == IF found THEN table[key] ELSE Display("UNKNOWN", "question_mark", "#6c757d")
      written == IF Truthy(emojiOverride) THEN [result EXCEPT !.emoji = emojiOverride]
                 ELSE result
  IN [result |-> written,
      table |-> IF found THEN [table EXCEPT ![key] = written] ELSE table]

\* StatusFormatter.formatStatus: the result is the table's own entry when
\* the key is in the table, so the override is written into the table; it
\* is a new object otherwise.
formatStatus(table, status, conclusion, emojiOverride) ==
  LET key == IF Truthy(conclusion) THEN conclusion ELSE status
      found == key \in DOMAIN table
      result == IF found THEN table[key]
                ELSE Display(toUpperCase[IF Truthy(key) THEN key ELSE "UNKNOWN"],
                             "question_mark", "#6c757d")
      written == IF Truthy(emojiOverride) THEN [result EXCEPT !.emoji = emojiOverride]
                 ELSE result
  IN [result |-> written,
      table |-> IF found THEN [table EXCEPT ![key] = written] ELSE table]

\* ------------------------------------------------------- identity lookups
\* GitHubService.getUserEmail under directory dir: success iff an address is public.
getUserEmail(dir, username) ==
  IF dir[username] # NoEmail
    THEN [success |-> TRUE, email |-> dir[username]]
    ELSE [success |-> FALSE, email |-> NoEmail]

\* GitHubService.getBulkUserEmails: the addresses of the resolvable names, in order.
RECURSIVE getBulkUserEmails(_, _)
getBulkUserEmails(dir, usernames) ==
  IF usernames = <<>> THEN <<>>
  ELSE LET r == getUserEmail(dir, Head(usernames))
           rest == getBulkUserEmails(dir, Tail(usernames))
       IN IF r.success THEN <<r.email>> \o rest ELSE rest

\* GitHubService.getAdditionalPRRecipients: assignees, then requested
\* reviewers, without the creator, as a Set of logins, resolved in bulk.
getAdditionalPRRecipients(dir, pullRequest, prCreator) ==
  LET notCreator(s) == SelectSeq(s, LAMBDA login : login # prCreator)
      additionalUsernames ==
        SetOrder(notCreator(pullRequest.assignees) \o notCreator(pullRequest.requested_reviewers))
  IN getBulkUserEmails(dir, additionalUsernames)

\* NotificationService.getConfiguredAdditionalRecipients: configured
\* addresses, then the addresses of the configured logins.
getConfiguredAdditionalRecipients(dir, config) ==
  config.emails \o getBulkUserEmails(dir, config.usernames)

\* ------------------------------------------------------ recipient resolver
\* The logins getAdditionalPRRecipients collects: assignees, then requested
\* reviewers, without the creator, each once.
additionalUsernames(pullRequest, prCreator) ==
  SetOrder(SelectSeq(pullRequest.assignees, LAMBDA login : login # prCreator)
           \o SelectSeq(pullRequest.requested_reviewers, LAMBDA login : login # prCreator))

\* A resolver that looks the default additional logins up before it reads the flag.
lookedUp_BeforeFlag(env, pr, customRecipients, config) ==
  <<pr.user>> \o additionalUsernames(pr, pr.user) \o config.usernames

\* The logins determineRecipients passes to getUserEmail, in call order:
\* the creator, then, in the default branch of the enabled flag only, the
\* additional logins of the pull request and the configured logins.
lookedUp(env, pr, customRecipients, config) ==
  IF includeAdditionalRecipients(env)
     /\ ~(customRecipients # NoList /\ Len(customRecipients) > 0)
    THEN <<pr.user>> \o additionalUsernames(pr, pr.user) \o config.usernames
    ELSE <<pr.user>>

\* A resolver that appends the owner after the additional recipients.
determineRecipients_OwnerLast(env, dir, pr, customRecipients, config) ==
  LET prCreator == pr.user
      creatorEmailResult == getUserEmail(dir, prCreator)
      recipients == IF creatorEmailResult.success THEN <<creatorEmailResult.email>> ELSE <<>>
      prRecipients == getAdditionalPRRecipients(dir, pr, prCreator)
      configuredRecipients == getConfiguredAdditionalRecipients(dir, config)
      allAdditional == prRecipients \o configuredRecipients
      emails ==
        IF includeAdditionalRecipients(env)
          THEN IF customRecipients # NoList /\ Len(customRecipients) > 0
                 THEN FilterNotIn(customRecipients, recipients) \o recipients
                 ELSE FilterNotIn(allAdditional, recipients) \o recipients
          ELSE recipients
  IN [emails |-> emails,
      total |-> Len(emails),
      prCreatorNotified |-> creatorEmailResult.success,
      lookups |-> lookedUp(env, pr, customRecipients, config)]

\* A resolver that adds the default additional recipients after a custom list.
determineRecipients_CustomPlusDefaults(env, dir, pr, customRecipients, config) ==
  LET prCreator == pr.user
      creatorEmailResult == getUserEmail(dir, prCreator)
      recipients == IF creatorEmailResult.success THEN <<creatorEmailResult.email>> ELSE <<>>
      prRecipients == getAdditionalPRRecipients(dir, pr, prCreator)
      configuredRecipients == getConfiguredAdditionalRecipients(dir, config)
      allAdditional == prRecipients \o configuredRecipients
      emails ==
        IF includeAdditionalRecipients(env)
          THEN IF customRecipients # NoList /\ Len(customRecipients) > 0
                 THEN recipients \o FilterNotIn(customRecipients \o allAdditional, recipients)
                 ELSE recipients \o FilterNotIn(allAdditional, recipients)
          ELSE recipients
  IN [emails |-> emails,
      total |-> Len(emails),
      prCreatorNotified |-> creatorEmailResult.success,
      lookups |-> lookedUp(env, pr, customRecipients, config)]

\* NotificationService.determineRecipients: the owner first when resolved,
\* then (flag on) a non-empty custom list, else assignees, reviewers and
\* configured recipients, each filtered against the list built so far.
determineRecipients(env, dir, pr, customRecipients, config) ==
  LET prCreator == pr.user
      creatorEmailResult == getUserEmail(dir, prCreator)
      recipients == IF creatorEmailResult.success THEN <<creatorEmailResult.email>> ELSE <<>>
      prRecipients == getAdditionalPRRecipients(dir, pr, prCreator)
      configuredRecipients == getConfiguredAdditionalRecipients(dir, config)
      allAdditional == prRecipients \o configuredRecipients
      emails ==
        IF includeAdditionalRecipients(env)
          THEN IF customRecipients # NoList /\ Len(customRecipients) > 0
                 THEN recipients \o FilterNotIn(customRecipients, recipients)
                 ELSE recipients \o FilterNotIn(allAdditional, recipients)
          ELSE recipients
  IN [emails |-> emails,
      total |-> Len(emails),
      prCreatorNotified |-> creatorEmailResult.success,
      lookups |-> lookedUp(env, pr, customRecipients, config)]

\* ----------------------------------------------------------------- dispatch
SendOutcomes == {"sent", "failed", "threw"}
\* A bulk send whose loop ends at the first send that throws.
sendBulkNotifications_StopOnThrow(recipients, outcome) ==
  LET thrown == {i \in 1..Len(recipients) : outcome[i] = "threw"}
      last == IF thrown = {} THEN Len(recipients)
              ELSE CHOOSE i \in thrown : \A j \in thrown : i <= j
      results == [i \in 1..last |->
                    [email |-> recipients[i], success |-> outcome[i] = "sent"]]
      successCount == Cardinality({i \in 1..last : outcome[i] = "sent"})
      failureCount == Cardinality({i \in 1..last : outcome[i] # "sent"})
  IN [success |-> successCount > 0,
      results |-> results,
      total |-> Len(recipients),
      succeeded |-> successCount,
      failed |-> failureCount]

\* A bulk send that reports success only when no delivery failed.
sendBulkNotifications_AllOrNothing(recipients, outcome) ==
  LET results == [i \in 1..Len(recipients) |->
                    [email |-> recipients[i], success |-> outcome[i] = "sent"]]
      successCount == Cardinality({i \in 1..Len(recipients) : outcome[i] = "sent"})
      failureCount == Cardinality({i \in 1..Len(recipients) : outcome[i] # "sent"})
  IN [success |-> failureCount = 0,
      results |-> results,
      total |-> Len(recipients),
      succeeded |-> successCount,
      failed |-> failureCount]

\* EmailService.sendBulkNotifications: one attempt per recipient in list
\* order; outcome[i] is what sendNotification did for recipient i.
sendBulkNotifications(recipients, outcome) ==
  LET results == [i \in 1..Len(recipients) |->
                    [email |-> recipients[i], success |-> outcome[i] = "sent"]]
      successCount == Cardinality({i \in 1..Len(recipients) : outcome[i] = "sent"})
      failureCount == Cardinality({i \in 1..Len(recipients) : outcome[i] # "sent"})
  IN [success |-> successCount > 0,
      results |-> results,
      total |-> Len(recipients),
      succeeded |-> successCount,
      failed |-> failureCount]

\* GitHubService.validateContext on a context record.
validateContext(context) ==
  context.octokit /\ context.payload /\ context.repository

\* --------------------------------------------------------- notification path
\* prCreatorNotified stands for what reading that field of a result yields
\* ("true", "false" or undefined): no send path puts it there.
NoSummary == [total |-> 0, succeeded |-> 0, failed |-> 0]
NoResult ==
  [success |-> FALSE, reason |-> Undefined, error |-> Undefined, dispatches |-> 0,
   recipients |-> <<>>, summary |-> NoSummary, prCreatorNotified |-> Undefined]
Result(success, reason, error) ==
  [NoResult EXCEPT !.success = success, !.reason = reason, !.error = error]

\* A send path that gives up when the owner's address is not resolved.
deliver_OwnerRequired(env, context, config, customRecipients, dir, outcome) ==
  IF ~validateContext(context) THEN Result(FALSE, Undefined, "Invalid context")
  ELSE IF ~context.hasPullRequest THEN Result(FALSE, Undefined, "No pull request found in payload")
  ELSE LET recipients == determineRecipients(env, dir, context.pull_request, customRecipients, config)
           sendResult == sendBulkNotifications(recipients.emails, outcome)
       IN IF Len(recipients.emails) = 0 \/ ~recipients.prCreatorNotified
            THEN Result(FALSE, "No email recipients found", Undefined)
            ELSE [NoResult EXCEPT !.success = sendResult.success, !.dispatches = 1,
                                  !.recipients = recipients.emails,
                                  !.summary = [total |-> sendResult.total,
                                               succeeded |-> sendResult.succeeded,
                                               failed |-> sendResult.failed]]

\* A delivery that hands the empty recipient list to the bulk send.
deliver_EmptySend(env, context, config, customRecipients, dir, outcome) ==
  IF ~validateContext(context) THEN Result(FALSE, Undefined, "Invalid context")
  ELSE IF ~context.hasPullRequest THEN Result(FALSE, Undefined, "No pull request found in payload")
  ELSE LET recipients == determineRecipients(env, dir, context.pull_request, customRecipients, config)
           sendResult == sendBulkNotifications(recipients.emails, outcome)
       IN [NoResult EXCEPT !.success = sendResult.success, !.dispatches = 1,
                           !.recipients = recipients.emails,
                           !.summary = [total |-> sendResult.total,
                                        succeeded |-> sendResult.succeeded,
                                        failed |-> sendResult.failed]]

\* The part of both send paths after the gate: validate the context, take
\* the pull request of the payload, resolve recipients, send to each.
\* A throw lands in the catch block: {success: false, error: message}.
deliver(env, context, config, customRecipients, dir, outcome) ==
  IF ~validateContext(context) THEN Result(FALSE, Undefined, "Invalid context")
  ELSE IF ~context.hasPullRequest THEN Result(FALSE, Undefined, "No pull request found in payload")
  ELSE LET recipients == determineRecipients(env, dir, context.pull_request, customRecipients, config)
           sendResult == sendBulkNotifications(recipients.emails, outcome)
       IN IF Len(recipients.emails) = 0
            THEN Result(FALSE, "No email recipients found", Undefined)
            ELSE [NoResult EXCEPT !.success = sendResult.success, !.dispatches = 1,
                                  !.recipients = recipients.emails,
                                  !.summary = [total |-> sendResult.total,
                                               succeeded |-> sendResult.succeeded,
                                               failed |-> sendResult.failed]]

\* NotificationService.sendPRNotification
sendPRNotification(env, context, config, eventType, action, customRecipients, dir, outcome) ==
  IF ~shouldSendNotification(env, eventType, action)
    THEN Result(FALSE, "Notification disabled", Undefined)
    ELSE deliver(env, context, config, customRecipients, dir, outcome)

\* A ready-to-merge send that goes through the gate of pull request updates
\* as well, the way sendPRNotification would for a synchronize event.
sendReadyToMergeNotification_CategoryGated(env, context, config, dir, outcome) ==
  IF ~shouldSendNotification(env, "pull_request", "ready_to_merge")
     \/ ~shouldSendNotification(env, "pull_request", "synchronize")
    THEN Result(FALSE, "Ready-to-merge notifications disabled", Undefined)
    ELSE deliver(env, context, config, NoList, dir, outcome)

\* NotificationService.sendReadyToMergeNotification: gated by the
\* ready-to-merge switch only, never by the category of the trigger.
sendReadyToMergeNotification(env, context, config, dir, outcome) ==
  IF ~shouldSendNotification(env, "pull_request", "ready_to_merge")
    THEN Result(FALSE, "Ready-to-merge notifications disabled", Undefined)
    ELSE deliver(env, context, config, NoList, dir, outcome)

\* ------------------------------------------------- ready-to-merge evaluator
\* A switch that gives the unstable state the label of the clean one.
readyStatus_OneLabel(mergeableState) ==
  IF mergeableState \in {"clean", "unstable"}
    THEN [isReady |-> TRUE, statusText |-> "READY TO MERGE",
          statusDescription |-> "Mergeable and all checks passing"]
    ELSE [isReady |-> FALSE, statusText |-> "", statusDescription |-> ""]

\* The switch over mergeable_state in checkAndNotifyReadyToMerge.
readyStatus(mergeableState) ==
  CASE mergeableState = "clean" ->
         [isReady |-> TRUE, statusText |-> "READY TO MERGE",
          statusDescription |-> "Mergeable and all checks passing"]
    [] mergeableState = "unstable" ->
         [isReady |-> TRUE, statusText |-> "READY TO MERGE (UNSTABLE)",
          statusDescription |-> "Mergeable but some checks are not passing"]
    [] OTHER ->
         [isReady |-> FALSE, statusText |-> "", statusDescription |-> ""]

\* `ready_to_merge_${pr.number}`: the dedup key holds the PR number only.
eventKey(number) == <<"ready_to_merge", number>>

\* An eviction that also drops the records exactly as old as the window.
cleanOldEvents_AtWindow(events, t) ==
  [k \in {q \in DOMAIN events : ~(t - events[q] >= recentTime)} |-> events[k]]

\* The eviction loop of isRecentEvent: drop every record older than the window.
cleanOldEvents(events, t) ==
  [k \in {q \in DOMAIN events : ~(t - events[q] > recentTime)} |-> events[k]]

\* isRecentEvent's answer, given the map after eviction.
isRecentEvent(events, t, key) == key \in DOMAIN cleanOldEvents(events, t)

\* A trackRecentEvent that forgets to set the record.
trackRecentEvent_Dropped(events, key, t) == events

\* trackRecentEvent: Map.set(eventKey, Date.now()).
trackRecentEvent(events, key, t) ==
  [k \in DOMAIN events \cup {key} |-> IF k = key THEN t ELSE events[k]]

\* ---------------------------------------------------------------- the world
\* The pull request GitHub returns for (repo, number): owner alice, assignee bob.
PullRequest(repo, number) ==
  [repo |-> repo, number |-> number, user |-> "alice",
   assignees |-> <<"bob">>, requested_reviewers |-> <<>>]
NoPullRequest ==
  [repo |-> "none", number |-> 0, user |-> "none",
   assignees |-> <<>>, requested_reviewers |-> <<>>]
\* ADDITIONAL_RECIPIENT_EMAILS / ADDITIONAL_RECIPIENT_USERNAMES unset.
NoConfigured == [emails |-> <<>>, usernames |-> <<>>]
\* A webhook context whose payload carries pull request pr (or none).
Context(hasPullRequest, pr) ==
  [octokit |-> TRUE, payload |-> TRUE, repository |-> TRUE,
   hasPullRequest |-> hasPullRequest, pull_request |-> pr]
Outcomes == [1..MaxList -> SendOutcomes]

\* Webhook deliveries: event type, action and the payload fields the handlers read.
Webhook(eventType, action, reviewState, conclusion, hasPRs) ==
  [eventType |-> eventType, action |-> action, reviewState |-> reviewState,
   conclusion |-> conclusion, hasPRs |-> hasPRs]
Webhooks ==
  {Webhook("pull_request", a, "none", "none", TRUE) : a \in {"synchronize", "ready_for_review"}}
  \cup {Webhook("pull_request_review", "submitted", r, "none", TRUE) :
          r \in {"APPROVED", "CHANGES_REQUESTED"}}
  \cup {Webhook("check_run", "completed", "none", c, h) :
          c \in {"success", "failure"}, h \in BOOLEAN}
  \cup {Webhook("check_suite", "completed", "none", "success", h) : h \in BOOLEAN}

\* The states a deployment_status payload reports.
DeploymentStates == {"success", "failure", "error", "pending", "in_progress"}
\* The event.action names registerEventHandlers subscribes to with app.on;
\* deployment and deployment_status are subscribed to whatever the action.
registeredEvents ==
  {<<"pull_request", a>> : a \in {"opened", "closed", "edited", "reopened", "synchronize",
                                  "ready_for_review", "review_requested"}}
  \cup {<<"check_run", "completed">>, <<"pull_request_review", "submitted">>}
  \cup {<<"deployment", "created">>}
  \cup {<<"deployment_status", state>> : state \in DeploymentStates}
\* EventHandlerFactory.register calls of AppContainer.initialize.
handlerOf(eventType) ==
  CASE eventType \in {"pull_request", "pull_request_review"} -> "PullRequestHandler"
    [] eventType = "check_run" -> "CheckRunHandler"
    [] eventType \in {"deployment", "deployment_status"} -> "DeploymentHandler"
    [] OTHER -> "DefaultHandler"

\* -------------------------------------------------------------------- state
VARIABLES
  now,                       \* Date.now()
  env,                       \* process.env: the NOTIFY_* switches
  recentReadyToMergeEvents,  \* PullRequestHandler.recentReadyToMergeEvents
  recentEvents,              \* CheckRunHandler.recentEvents
  directory,                 \* the public profiles: login -> address or none
  task,                      \* the webhook handlers in flight, by task
  rc,                        \* one recipient resolution: its inputs and result
  call,                      \* one call of a function: arguments, return value
  statusMappings,            \* STATUS_MAPPINGS: the module's table object
  deploymentEvents           \* DeploymentHandler.recentEvents

vars ==
  <<now, env, recentReadyToMergeEvents, recentEvents, directory, task, rc, call,
    statusMappings, deploymentEvents>>

IdleTask ==
  [pc |-> "idle", route |-> "app", ev |-> Webhook("none", "none", "none", "none", FALSE),
   repo |-> "none", number |-> 0,
   trigger |-> "none", hasPullRequest |-> FALSE,
   evalStart |-> NoTime, checkTime |-> NoTime, mergeableState |-> "none",
   reached |-> FALSE, wrote |-> FALSE, suppressed |-> FALSE, label |-> "",
   name |-> "none", redelivered |-> FALSE, listed |-> "none", checks |-> <<>>,
   requests |-> <<>>,
   notify |-> NoResult, rtm |-> NoResult, eval |-> NoResult, result |-> NoResult]
NoResolution ==
  [pc |-> "off", pr |-> NoPullRequest, custom |-> NoList, config |-> NoConfigured,
   emails |-> <<>>, prCreatorNotified |-> FALSE, attempts |-> <<>>, success |-> FALSE,
   lookups |-> <<>>, result |-> NoResult,
   outcome |-> <<>>, bulk |-> sendBulkNotifications(<<>>, <<>>)]

\* The statuses and conclusions formatStatus is called with: keys of the
\* table, keys outside it, the empty string and null.
StatusInputs == {"success", "closed", "submitted", "stale", "approved", "", Null}
\* The overrides: none, the rocket of the deployment notifications, the memo
\* of the review notifications.
EmojiInputs == {Null, "rocket", "memo"}
\* No function called yet.
NoCall == [op |-> "none", arg |-> <<>>, ret |-> <<>>]

\* ------------------------------------------------------------------ actions
\* Date.now() moves on between two handler steps.
Tick ==
  /\ now < MaxTicks * TickMs
  /\ now' = now + TickMs
  /\ UNCHANGED <<env, recentReadyToMergeEvents, recentEvents, directory, task, rc, call, statusMappings,
                 deploymentEvents>>

CanReceive(t) ==
  /\ task[t].pc = "idle"
  /\ \A u \in Tasks : u < t => task[u].pc # "idle"

Received(w, route, repo, number) ==
  [IdleTask EXCEPT !.ev = w, !.route = route, !.repo = repo, !.number = number]

\* The handler's return value once its ready-to-merge evaluation (if any) is over.
handlerResult(tk) ==
  CASE tk.ev.eventType = "check_run" ->
         IF tk.notify.success
           THEN Result(TRUE, Undefined, Undefined)
           ELSE Result(FALSE, "No notifications sent", Undefined)
    [] tk.ev.eventType = "check_suite" -> Result(TRUE, "check_suite_processed", Undefined)
    [] OTHER -> tk.notify

\* checkAndNotifyReadyToMerge is entered: it logs and awaits pulls.get.
startEvaluation(tk, trigger, hasPullRequest, t) ==
  [tk EXCEPT !.pc = "rtm_fetch", !.trigger = trigger,
             !.hasPullRequest = hasPullRequest, !.evalStart = t]

\* The evaluation returned ev to the handler, which returns in turn.
endEvaluation(tk, ev) ==
  LET after == [tk EXCEPT !.eval = ev]
  IN [after EXCEPT !.pc = "done", !.result = handlerResult(after)]

\* A delivery Probot has no listener for: index.js subscribes to no
\* check_suite event, so no handler runs.
ReceiveUnregistered(t, sc) ==
  /\ CanReceive(t)
  /\ \E w \in sc.webhooks, repo \in sc.repos, number \in PRNumbers :
       /\ <<w.eventType, w.action>> \notin registeredEvents
       /\ task' = [task EXCEPT ![t] =
            [Received(w, "app", repo, number) EXCEPT
               !.pc = "done", !.result = Result(FALSE, "no listener", Undefined)]]
  /\ UNCHANGED <<now, env, recentReadyToMergeEvents, recentEvents, directory, rc, call, statusMappings,
                 deploymentEvents>>

\* handleEvent -> PullRequestHandler.handle -> handleSynchronize,
\* handleReadyForReview or handleReviewSubmitted, up to the await of
\* sendPRNotification.
HandlePullRequest(t, sc) ==
  /\ CanReceive(t)
  /\ \E w \in sc.webhooks, repo \in sc.repos, number \in PRNumbers :
       /\ <<w.eventType, w.action>> \in registeredEvents
       /\ handlerOf(w.eventType) = "PullRequestHandler"
       /\ task' = [task EXCEPT ![t] =
            [Received(w, "app", repo, number) EXCEPT !.pc = "pr_notify"]]
  /\ UNCHANGED <<now, env, recentReadyToMergeEvents, recentEvents, directory, rc, call, statusMappings,
                 deploymentEvents>>

\* The trigger a pull request handler passes to the evaluator, if it calls it.
triggerOf(w) ==
  CASE w.eventType = "pull_request" /\ w.action = "synchronize" -> "synchronize"
    [] w.eventType = "pull_request" /\ w.action = "ready_for_review" -> "ready_for_review"
    [] w.eventType = "pull_request_review" /\ w.action = "submitted"
       /\ w.reviewState = "APPROVED" -> "review_approved"
    [] OTHER -> "none"

\* sendPRNotification has returned to the pull request handler, which
\* starts the ready-to-merge evaluation whatever that result was.
PullRequestNotified(t, sc) ==
  /\ task[t].pc = "pr_notify"
  /\ \E outcome \in sc.outcomes :
       LET tk == task[t]
           pr == PullRequest(tk.repo, tk.number)
           r == sendPRNotification(env, Context(TRUE, pr), NoConfigured,
                                   tk.ev.eventType, tk.ev.action, NoList, directory, outcome)
           noted == [tk EXCEPT !.notify = r]
       IN task' = [task EXCEPT ![t] =
            IF triggerOf(tk.ev) # "none"
              THEN startEvaluation(noted, triggerOf(tk.ev), TRUE, now)
              ELSE [noted EXCEPT !.pc = "done", !.result = r]]
  /\ UNCHANGED <<now, env, recentReadyToMergeEvents, recentEvents, directory, rc, call, statusMappings,
                 deploymentEvents>>

\* An evaluator that evicts the stale records before it looks at the state.
evaluate_EvictFirst(events, t, number, fetched) ==
  LET st == readyStatus(fetched)
      key == eventKey(number)
      kept == cleanOldEvents(events, t)
  IN IF fetched = ApiError
       THEN [events |-> events, verdict |-> "error", statusText |-> ""]
     ELSE IF ~st.isReady
       THEN [events |-> kept, verdict |-> "not_notification_worthy", statusText |-> ""]
     ELSE IF key \in DOMAIN kept
       THEN [events |-> kept, verdict |-> "already_notified_recently", statusText |-> ""]
     ELSE [events |-> trackRecentEvent(kept, key, t),
           verdict |-> "notify", statusText |-> st.statusText]

\* An evaluator that writes the dedup record before pulls.get has answered,
\* so that a failed fetch leaves a record behind.
evaluate_TrackBeforeFetch(events, t, number, fetched) ==
  LET st == readyStatus(fetched)
      key == eventKey(number)
  IN IF fetched = ApiError
       THEN [events |-> trackRecentEvent(events, key, t), verdict |-> "error", statusText |-> ""]
     ELSE IF ~st.isReady
       THEN [events |-> events, verdict |-> "not_notification_worthy", statusText |-> ""]
     ELSE IF isRecentEvent(events, t, key)
       THEN [events |-> cleanOldEvents(events, t),
             verdict |-> "already_notified_recently", statusText |-> ""]
     ELSE [events |-> trackRecentEvent(cleanOldEvents(events, t), key, t),
           verdict |-> "notify", statusText |-> st.statusText]

\* An evaluator that writes the record anew when it suppresses.
evaluate_RefreshOnSuppress(events, t, number, fetched) ==
  LET st == readyStatus(fetched)
      key == eventKey(number)
  IN IF fetched = ApiError
       THEN [events |-> events, verdict |-> "error", statusText |-> ""]
     ELSE IF ~st.isReady
       THEN [events |-> events, verdict |-> "not_notification_worthy", statusText |-> ""]
     ELSE IF isRecentEvent(events, t, key)
       THEN [events |-> trackRecentEvent(cleanOldEvents(events, t), key, t),
             verdict |-> "already_notified_recently", statusText |-> ""]
     ELSE [events |-> trackRecentEvent(cleanOldEvents(events, t), key, t),
           verdict |-> "notify", statusText |-> st.statusText]

\* checkAndNotifyReadyToMerge from the answer of pulls.get to the call of
\* sendReadyToMergeNotification: an API error lands in the catch block; a
\* state other than clean and unstable returns at once; otherwise the dedup
\* map is evicted and read, and if the key is absent it is written.
evaluate(events, t, number, fetched) ==
  LET st == readyStatus(fetched)
      key == eventKey(number)
  IN IF fetched = ApiError
       THEN [events |-> events, verdict |-> "error", statusText |-> ""]
     ELSE IF ~st.isReady
       THEN [events |-> events, verdict |-> "not_notification_worthy", statusText |-> ""]
     ELSE IF isRecentEvent(events, t, key)
       THEN [events |-> cleanOldEvents(events, t),
             verdict |-> "already_notified_recently", statusText |-> ""]
     ELSE [events |-> trackRecentEvent(cleanOldEvents(events, t), key, t),
           verdict |-> "notify", statusText |-> st.statusText]

\* An evaluator that reads the state from the payload's pull request.
checkAndNotifyReadyToMerge_TrustPayload(events, t, pr, fetched) ==
  evaluate(events, t, pr.number,
           IF fetched = ApiError THEN ApiError ELSE pr.mergeable_state)

\* checkAndNotifyReadyToMerge(context, pr, triggerEvent) from the answer of
\* pulls.get on: of the pull request pr it was handed, it reads the number.
checkAndNotifyReadyToMerge(events, t, pr, fetched) == evaluate(events, t, pr.number, fetched)

\* pulls.get has answered the evaluator of task t.
EvaluationFetched(t, sc) ==
  /\ task[t].pc = "rtm_fetch"
  /\ \E fetched \in sc.fetched :
       LET tk == [task[t] EXCEPT !.mergeableState = fetched]
           e == evaluate(recentReadyToMergeEvents, now, tk.number, fetched)
       IN /\ recentReadyToMergeEvents' = e.events
          /\ task' = [task EXCEPT ![t] =
               CASE e.verdict = "error" ->
                      endEvaluation(tk, Result(FALSE, Undefined, "pulls.get failed"))
                 [] e.verdict = "not_notification_worthy" ->
                      endEvaluation(tk, Result(TRUE, "not_notification_worthy", Undefined))
                 [] e.verdict = "already_notified_recently" ->
                      endEvaluation([tk EXCEPT !.checkTime = now, !.suppressed = TRUE],
                                    Result(TRUE, "already_notified_recently", Undefined))
                 [] OTHER ->
                      [tk EXCEPT !.pc = "rtm_send", !.checkTime = now,
                                 !.label = e.statusText, !.reached = TRUE,
                                 !.wrote = (eventKey(tk.number) \in DOMAIN e.events
                                            /\ e.events[eventKey(tk.number)] = now)]]
  /\ UNCHANGED <<now, env, recentEvents, directory, rc, call, statusMappings,
                 deploymentEvents>>

\* sendReadyToMergeNotification has returned to the evaluator.
EvaluationSent(t, sc) ==
  /\ task[t].pc = "rtm_send"
  /\ \E outcome \in sc.outcomes :
       LET tk == task[t]
           pr == IF tk.hasPullRequest THEN PullRequest(tk.repo, tk.number) ELSE NoPullRequest
           r == sendReadyToMergeNotification(env, Context(tk.hasPullRequest, pr),
                                             NoConfigured, directory, outcome)
       IN task' = [task EXCEPT ![t] = endEvaluation([tk EXCEPT !.rtm = r], r)]
  /\ UNCHANGED <<now, env, recentReadyToMergeEvents, recentEvents, directory, rc, call, statusMappings,
                 deploymentEvents>>

\* -------------------------------------------------------------- deployments
\* The methods NotificationService defines; a call of any other name on
\* the service throws a TypeError.
NotificationServiceMethods ==
  {"sendPRNotification", "determineRecipients", "getConfiguredAdditionalRecipients",
   "generateEmailContent", "sendNotifications", "sendReadyToMergeNotification",
   "getHealthStatus"}

\* `${deployment.id}-${status}`: the deployment is that of (repo, number).
deploymentKey(repo, number, status) == <<repo, number, status>>

\* DeploymentHandler.isDuplicateEvent: evict the records older than five
\* minutes, answer whether the key is recorded, record it if it is not.
isDuplicateEvent(events, key, t) ==
  LET kept == [k \in {q \in DOMAIN events : ~(t - events[q] > fiveMinutes)} |-> events[k]]
  IN IF key \in DOMAIN kept
       THEN [duplicate |-> TRUE, events |-> kept]
       ELSE [duplicate |-> FALSE,
             events |-> [k \in DOMAIN kept \cup {key} |-> IF k = key THEN t ELSE kept[k]]]

\* handleEvent -> DeploymentHandler.handle -> handleDeployment or
\* handleDeploymentStatus, up to the await of findPullRequestsForCommit.
HandleDeployment(t, sc) ==
  /\ CanReceive(t)
  /\ \E w \in sc.webhooks, repo \in sc.repos, number \in PRNumbers :
       LET tk == Received(w, "app", repo, number)
           d == isDuplicateEvent(deploymentEvents, deploymentKey(repo, number, w.action), now)
       IN /\ <<w.eventType, w.action>> \in registeredEvents
          /\ handlerOf(w.eventType) = "DeploymentHandler"
          /\ IF w.eventType = "deployment"
               THEN /\ task' = [task EXCEPT ![t] =
                         IF w.action # "created"
                           THEN [tk EXCEPT !.pc = "done",
                                   !.result = Result(TRUE, "Event ignored - not deployment created",
                                                     Undefined)]
                           ELSE [tk EXCEPT !.pc = "dp_find"]]
                    /\ UNCHANGED deploymentEvents
             ELSE IF w.action \notin {"success", "failure", "error"}
               THEN /\ task' = [task EXCEPT ![t] =
                         [tk EXCEPT !.pc = "done",
                                    !.result = Result(TRUE, "Event ignored - status not final",
                                                      Undefined)]]
                    /\ UNCHANGED deploymentEvents
             ELSE /\ task' = [task EXCEPT ![t] =
                       IF d.duplicate
                         THEN [tk EXCEPT !.pc = "done",
                                 !.result = Result(TRUE, "Duplicate event ignored", Undefined)]
                         ELSE [tk EXCEPT !.pc = "dp_find"]]
                  /\ deploymentEvents' = d.events
  /\ UNCHANGED <<now, env, recentReadyToMergeEvents, recentEvents, directory, rc, call,
                 statusMappings>>

\* getPullRequestsForCommit has answered, with [] when the lookup failed.
\* For the first pull request found the handler calls
\* notificationService.sendNotification, which the service does not
\* define: the TypeError leaves the loop and lands in handle's catch block.
DeploymentFound(t, sc) ==
  /\ task[t].pc = "dp_find"
  /\ \E ok \in BOOLEAN :
       LET tk == [task[t] EXCEPT !.listed = IF ok THEN "ok" ELSE "error"]
       IN task' = [task EXCEPT ![t] =
            IF ~ok \/ ~tk.ev.hasPRs
              THEN [tk EXCEPT !.pc = "done",
                              !.result = Result(TRUE, "No associated pull requests", Undefined)]
            ELSE IF "sendNotification" \notin NotificationServiceMethods
              THEN [tk EXCEPT !.pc = "done",
                      !.result = Result(FALSE, Undefined,
                                        "notificationService.sendNotification is not a function")]
            ELSE [tk EXCEPT !.pc = "done", !.result = Result(FALSE, Undefined, Undefined)]]
  /\ UNCHANGED <<now, env, recentReadyToMergeEvents, recentEvents, directory, rc, call,
                 statusMappings, deploymentEvents>>

\* ------------------------------------------------------ check-run summaries
\* What a check run of the listing can be: completed with a conclusion, or
\* not completed yet.
CheckKinds ==
  {[status |-> "completed", conclusion |-> c] :
     c \in {"success", "failure", "timed_out", "action_required", "skipped", "neutral",
            "cancelled", "stale"}}
  \cup {[status |-> st, conclusion |-> "null"] : st \in {"in_progress", "queued"}}
PassedCheck == [status |-> "completed", conclusion |-> "success"]
FailedCheck == [status |-> "completed", conclusion |-> "failure"]
RunningCheck == [status |-> "in_progress", conclusion |-> "null"]
\* The listing of a commit whose i-th check is of kind kinds[i]; the checks
\* are named A, B, C, ... in list order.
CheckNames == <<"A", "B", "C", "D", "E", "F", "G">>
CheckRuns(kinds) ==
  [i \in 1..Len(kinds) |->
     [name |-> CheckNames[i], status |-> kinds[i].status, conclusion |-> kinds[i].conclusion]]
NamesOf(runs) == [i \in 1..Len(runs) |-> runs[i].name]

\* An analysis that takes only the runs in progress as not completed.
analyzeCheckRuns_QueuedDropped(allCheckRuns, triggeringCheckName) ==
  LET completed == SelectSeq(allCheckRuns, LAMBDA run : run.status = "completed")
      inProgress == SelectSeq(allCheckRuns, LAMBDA run : run.status = "in_progress")
      passed == SelectSeq(completed, LAMBDA run : run.conclusion = "success")
      failed == SelectSeq(completed, LAMBDA run :
                  run.conclusion \in {"failure", "timed_out", "action_required"})
      skipped == SelectSeq(completed, LAMBDA run :
                   run.conclusion \in {"skipped", "neutral", "cancelled"})
  IN [total |-> Len(allCheckRuns), completed |-> Len(completed),
      inProgress |-> Len(inProgress), passed |-> Len(passed), failed |-> Len(failed),
      skipped |-> Len(skipped), triggeringCheck |-> triggeringCheckName,
      allCompleted |-> Len(inProgress) = 0,
      passedChecks |-> NamesOf(passed), failedChecks |-> NamesOf(failed),
      inProgressChecks |-> NamesOf(inProgress)]

\* CheckRunHandler.analyzeCheckRuns
analyzeCheckRuns(allCheckRuns, triggeringCheckName) ==
  LET completed == SelectSeq(allCheckRuns, LAMBDA run : run.status = "completed")
      inProgress == SelectSeq(allCheckRuns, LAMBDA run : run.status # "completed")
      passed == SelectSeq(completed, LAMBDA run : run.conclusion = "success")
      failed == SelectSeq(completed, LAMBDA run :
                  run.conclusion \in {"failure", "timed_out", "action_required"})
      skipped == SelectSeq(completed, LAMBDA run :
                   run.conclusion \in {"skipped", "neutral", "cancelled"})
  IN [total |-> Len(allCheckRuns), completed |-> Len(completed),
      inProgress |-> Len(inProgress), passed |-> Len(passed), failed |-> Len(failed),
      skipped |-> Len(skipped), triggeringCheck |-> triggeringCheckName,
      allCompleted |-> Len(inProgress) = 0,
      passedChecks |-> NamesOf(passed), failedChecks |-> NamesOf(failed),
      inProgressChecks |-> NamesOf(inProgress)]

\* A subject line: the template chosen and the values put into it. The
\* templates are "Checks: <failed> failed, <passed> passed", "Checks:
\* <failed> failed", "Checks: <passed> passed", "Checks: completed" and
\* "Checks: <name> completed (<inProgress> still running)"; prNumber 0 is
\* the absent number and gives no "PR #<n> - " prefix.
NoSubject ==
  [prNumber |-> 0, text |-> "none", failed |-> 0, passed |-> 0, name |-> "", inProgress |-> 0]

\* A subject that names the failures as soon as there is one.
formatCheckRunSubject_FailedOnly(summary, triggeringCheckName, prNumber) ==
  IF summary.allCompleted
    THEN IF summary.failed > 0
           THEN [NoSubject EXCEPT !.prNumber = prNumber, !.text = "failed",
                                  !.failed = summary.failed]
           ELSE IF summary.passed > 0
                  THEN [NoSubject EXCEPT !.prNumber = prNumber, !.text = "passed",
                                         !.passed = summary.passed]
                  ELSE [NoSubject EXCEPT !.prNumber = prNumber, !.text = "completed"]
    ELSE [NoSubject EXCEPT !.prNumber = prNumber, !.text = "completed, still running",
                           !.name = triggeringCheckName, !.inProgress = summary.inProgress]

\* CheckRunHandler.formatCheckRunSubject
formatCheckRunSubject(summary, triggeringCheckName, prNumber) ==
  IF summary.allCompleted
    THEN IF summary.failed > 0 /\ summary.passed > 0
           THEN [NoSubject EXCEPT !.prNumber = prNumber, !.text = "failed, passed",
                                  !.failed = summary.failed, !.passed = summary.passed]
           ELSE IF summary.failed > 0
                  THEN [NoSubject EXCEPT !.prNumber = prNumber, !.text = "failed",
                                         !.failed = summary.failed]
                  ELSE IF summary.passed > 0
                         THEN [NoSubject EXCEPT !.prNumber = prNumber, !.text = "passed",
                                                !.passed = summary.passed]
                         ELSE [NoSubject EXCEPT !.prNumber = prNumber, !.text = "completed"]
    ELSE [NoSubject EXCEPT !.prNumber = prNumber, !.text = "completed, still running",
                           !.name = triggeringCheckName, !.inProgress = summary.inProgress]

\* getAllCheckRuns: the check_runs of the answer, [] when the call threw.
getAllCheckRuns(threw, check_runs) == IF threw THEN <<>> ELSE check_runs

\* Notification data that shows the triggering check alone.
notificationData_TriggerOnly(checkRunSummary, checkRunName, prNumber) ==
  [subject |-> [NoSubject EXCEPT !.prNumber = prNumber, !.text = "completed",
                                 !.name = checkRunName],
   status |-> "CHECKS PASSED", total |-> 1]

\* The notificationData handleCheckRun builds from the summary of the
\* listing: the subject, statusInfo.status and the description's total.
notificationData(checkRunSummary, checkRunName, prNumber) ==
  [subject |-> formatCheckRunSubject(checkRunSummary, checkRunName, prNumber),
   status |-> IF checkRunSummary.allCompleted
                THEN IF checkRunSummary.failed > 0 THEN "CHECKS FAILED" ELSE "CHECKS PASSED"
                ELSE "CHECKS IN PROGRESS",
   total |-> checkRunSummary.total]

\* `${head_sha}-${name}-${action}`: the commit is that of (repo, number).
checkRunKey(repo, number, name, action) == <<repo, number, name, action>>

\* handleCheckRun's tracking: Map.set(eventKey, now), then the eviction of
\* the records older than five minutes.
trackCheckRun(events, key, t) ==
  LET set == [k \in DOMAIN events \cup {key} |-> IF k = key THEN t ELSE events[k]]
  IN [k \in {q \in DOMAIN set : ~(set[q] < t - fiveMinutes)} |-> set[k]]

\* handleCheckRun up to the await of getAllCheckRuns: the event is recorded
\* and the old records are evicted. redelivered notes that the same key was
\* recorded in the last five minutes by a handling that is over.
enterCheckRun(t, route, w, repo, number, name) ==
  LET key == checkRunKey(repo, number, name, w.action)
  IN /\ task' = [task EXCEPT ![t] =
          [Received(w, route, repo, number) EXCEPT
             !.pc = "cr_list", !.name = name,
             !.redelivered =
                /\ key \in DOMAIN recentEvents
                /\ now - recentEvents[key] <= fiveMinutes
                /\ \E u \in Tasks \ {t} :
                     /\ task[u].pc = "done" /\ task[u].name = name
                     /\ task[u].ev = w /\ task[u].repo = repo
                     /\ task[u].number = number]]
     /\ recentEvents' = trackCheckRun(recentEvents, key, now)

\* handleEvent -> CheckRunHandler.handle -> handleCheckRun, up to the
\* await of getAllCheckRuns.
HandleCheckRun(t, sc) ==
  /\ CanReceive(t)
  /\ \E w \in sc.webhooks, repo \in sc.repos, number \in PRNumbers, name \in sc.names :
       /\ <<w.eventType, w.action>> \in registeredEvents
       /\ handlerOf(w.eventType) = "CheckRunHandler"
       /\ enterCheckRun(t, "app", w, repo, number, name)
  /\ UNCHANGED <<now, env, recentReadyToMergeEvents, directory, rc, call, statusMappings,
                 deploymentEvents>>

\* CheckRunHandler.handle called with a check_run payload and an action the
\* app has no listener for.
HandleCheckRunAction(t, sc) ==
  /\ CanReceive(t)
  /\ \E w \in sc.webhooks, repo \in sc.repos, number \in PRNumbers, name \in sc.names :
       /\ w.eventType = "check_run"
       /\ <<w.eventType, w.action>> \notin registeredEvents
       /\ enterCheckRun(t, "handler", w, repo, number, name)
  /\ UNCHANGED <<now, env, recentReadyToMergeEvents, directory, rc, call, statusMappings,
                 deploymentEvents>>

\* A handler that goes on whatever the action is.
afterListing_AnyAction(listed) ==
  IF ~listed.ev.hasPRs
    THEN [listed EXCEPT !.pc = "done",
            !.result = Result(FALSE, "No associated pull requests", Undefined)]
    ELSE [listed EXCEPT !.pc = "cr_getpr"]

\* handleCheckRun after the listing: only completed actions with an
\* associated pull request go on to fetch the full pull request.
afterListing(listed) ==
  IF listed.ev.action # "completed"
    THEN [listed EXCEPT !.pc = "done",
                        !.result = Result(FALSE, "Action not processed", Undefined)]
  ELSE IF ~listed.ev.hasPRs
    THEN [listed EXCEPT !.pc = "done",
            !.result = Result(FALSE, "No associated pull requests", Undefined)]
  ELSE [listed EXCEPT !.pc = "cr_getpr"]

\* The check list has arrived, or [] in its place when the listing threw.
\* A listing that arrives holds the triggering check as the payload
\* reports it: completed with its conclusion, or not completed yet.
CheckRunListed(t, sc) ==
  /\ task[t].pc = "cr_list"
  /\ \E threw \in sc.listThrows, kinds \in sc.listings :
       LET tk == task[t]
           answer == CheckRuns(kinds)
           listed == [tk EXCEPT !.listed = IF threw THEN "error" ELSE "ok",
                                !.checks = getAllCheckRuns(threw, answer)]
       IN /\ \E i \in 1..Len(answer) :
               /\ answer[i].name = tk.name
               /\ IF tk.ev.action = "completed"
                    THEN /\ answer[i].status = "completed"
                         /\ answer[i].conclusion = tk.ev.conclusion
                    ELSE answer[i].status # "completed"
          /\ task' = [task EXCEPT ![t] = afterListing(listed)]
  /\ UNCHANGED <<now, env, recentReadyToMergeEvents, recentEvents, directory, rc, call,
                 statusMappings,
                 deploymentEvents>>

\* pulls.get of handleCheckRun has answered: a failure is pushed to the
\* results and the loop goes on; otherwise the notification data is built
\* and sendPRNotification is awaited with it.
CheckRunFetched(t, sc) ==
  /\ task[t].pc = "cr_getpr"
  /\ \E ok \in BOOLEAN :
       task' = [task EXCEPT ![t] =
         IF ok
           THEN [@ EXCEPT !.pc = "cr_notify",
                          !.requests = Append(@,
                             [eventType |-> "check_run", action |-> "completed",
                              data |-> notificationData(
                                         analyzeCheckRuns(task[t].checks, task[t].name),
                                         task[t].name, task[t].number)])]
         ELSE [@ EXCEPT !.pc = "done", !.notify = Result(FALSE, Undefined, "Failed to fetch PR data"),
                        !.result = Result(FALSE, "No notifications sent", Undefined)]]
  /\ UNCHANGED <<now, env, recentReadyToMergeEvents, recentEvents, directory, rc, call, statusMappings,
                 deploymentEvents>>

\* sendPRNotification has returned to handleCheckRun: a successful check
\* starts the evaluation with the context that carries the full pull request.
CheckRunNotified(t, sc) ==
  /\ task[t].pc = "cr_notify"
  /\ \E outcome \in sc.outcomes :
       LET tk == task[t]
           pr == PullRequest(tk.repo, tk.number)
           r == sendPRNotification(env, Context(TRUE, pr), NoConfigured,
                                   "check_run", "completed", NoList, directory, outcome)
           noted == [tk EXCEPT !.notify = r]
       IN task' = [task EXCEPT ![t] =
            IF tk.ev.conclusion = "success"
              THEN startEvaluation(noted, "check_success", TRUE, now)
              ELSE [noted EXCEPT !.pc = "done", !.result = handlerResult(noted)]]
  /\ UNCHANGED <<now, env, recentReadyToMergeEvents, recentEvents, directory, rc, call, statusMappings,
                 deploymentEvents>>

\* CheckRunHandler.handle called with a check_suite payload ->
\* handleCheckSuite: the evaluation gets the suite's pull request entry and
\* a context whose payload has no pull_request.
HandleCheckSuite(t, sc) ==
  /\ CanReceive(t)
  /\ \E w \in sc.webhooks, repo \in sc.repos, number \in PRNumbers :
       /\ w.eventType = "check_suite"
       /\ task' = [task EXCEPT ![t] =
            LET tk == Received(w, "handler", repo, number)
            IN IF w.action # "completed"
                 THEN [tk EXCEPT !.pc = "done",
                                 !.result = Result(TRUE, "non_completed_suite", Undefined)]
               ELSE IF ~w.hasPRs
                 THEN [tk EXCEPT !.pc = "done",
                                 !.result = Result(TRUE, "no_associated_prs", Undefined)]
               ELSE startEvaluation(tk, "check_suite_completed", FALSE, now)]
  /\ UNCHANGED <<now, env, recentReadyToMergeEvents, recentEvents, directory, rc, call, statusMappings,
                 deploymentEvents>>

\* determineRecipients has resolved the recipients of one notification.
ResolveRecipients ==
  /\ rc.pc = "input"
  /\ LET recipients == determineRecipients(env, directory, rc.pr, rc.custom, rc.config)
     IN rc' = [rc EXCEPT !.pc = "resolved", !.emails = recipients.emails,
                         !.prCreatorNotified = recipients.prCreatorNotified,
                         !.lookups = recipients.lookups]
  /\ UNCHANGED <<now, env, recentReadyToMergeEvents, recentEvents, directory, task, call, statusMappings,
                 deploymentEvents>>

\* The send path after the resolution: no recipient, no send; otherwise
\* sendBulkNotifications attempts each recipient in list order.
DispatchResolved ==
  /\ rc.pc = "resolved"
  /\ IF Len(rc.emails) = 0
       THEN rc' = [rc EXCEPT !.pc = "no_recipients"]
       ELSE \E outcome \in [1..Len(rc.emails) -> {"sent", "failed"}] :
              LET sendResult == sendBulkNotifications(rc.emails, outcome)
              IN rc' = [rc EXCEPT !.pc = "sent",
                                  !.attempts = [i \in 1..Len(sendResult.results) |->
                                                  sendResult.results[i].email],
                                  !.success = sendResult.success]
  /\ UNCHANGED <<now, env, recentReadyToMergeEvents, recentEvents, directory, task, call, statusMappings,
                 deploymentEvents>>

\* One call of sendBulkNotifications on the list rc.emails; outcome[i] is
\* what sendNotification did for the i-th recipient: it sent, it returned a
\* failure, or it threw.
SendBulk ==
  /\ rc.pc = "bulk"
  /\ \E outcome \in [1..Len(rc.emails) -> SendOutcomes] :
       rc' = [rc EXCEPT !.pc = "bulk_sent", !.outcome = outcome,
                        !.bulk = sendBulkNotifications(rc.emails, outcome)]
  /\ UNCHANGED <<now, env, recentReadyToMergeEvents, recentEvents, directory, task, call, statusMappings,
                 deploymentEvents>>

\* The gate is asked about one event/action pair: AppConfig.isEventEnabled
\* and NotificationValidator.shouldSendNotification each give their answer.
AskGate ==
  /\ call.op = "gate?"
  /\ call' = [call EXCEPT
       !.op = "gate",
       !.ret = [isEventEnabled |-> isEventEnabled(env, call.arg.eventType, call.arg.action),
                shouldSendNotification |->
                  shouldSendNotification(env, call.arg.eventType, call.arg.action)]]
  /\ UNCHANGED <<now, env, recentReadyToMergeEvents, recentEvents, directory, task, rc, statusMappings,
                 deploymentEvents>>

\* analyzeCheckRuns is called on the listing call.arg.runs.
AnalyzeCheckRuns ==
  /\ call.op = "analyze?"
  /\ call' = [call EXCEPT !.op = "analyze",
                          !.ret = analyzeCheckRuns(call.arg.runs, call.arg.triggeringCheckName)]
  /\ UNCHANGED <<now, env, recentReadyToMergeEvents, recentEvents, directory, task, rc, statusMappings,
                 deploymentEvents>>

\* formatCheckRunSubject is called on the summary just computed.
FormatCheckRunSubject ==
  /\ call.op = "analyze"
  /\ call' = [call EXCEPT !.op = "subject",
                          !.ret = [summary |-> call.ret,
                                   subject |-> formatCheckRunSubject(call.ret,
                                                 call.arg.triggeringCheckName,
                                                 call.arg.prNumber)]]
  /\ UNCHANGED <<now, env, recentReadyToMergeEvents, recentEvents, directory, task, rc, statusMappings,
                 deploymentEvents>>

\* One call of StatusFormatter.formatStatus.
FormatStatus ==
  /\ call.op \in {"status?", "formatStatus"}
  /\ \E status \in StatusInputs, conclusion \in StatusInputs, emojiOverride \in EmojiInputs :
       LET r == formatStatus(statusMappings, status, conclusion, emojiOverride)
       IN /\ call' = [op |-> "formatStatus",
                      arg |-> [status |-> status, conclusion |-> conclusion,
                               emojiOverride |-> emojiOverride],
                      ret |-> r.result]
          /\ statusMappings' = r.table
  /\ UNCHANGED <<now, env, recentReadyToMergeEvents, recentEvents, directory, task, rc,
                 deploymentEvents>>

\* Two evaluations of the same pull request from the same dedup map and
\* the same answer of pulls.get, handed pull request objects that differ in
\* their mergeable_state.
EvaluateBoth ==
  /\ call.op = "evaluate?"
  /\ call' = [call EXCEPT
       !.op = "evaluate",
       !.ret = [first |-> checkAndNotifyReadyToMerge(call.arg.events, now, call.arg.first,
                                                     call.arg.fetched),
                second |-> checkAndNotifyReadyToMerge(call.arg.events, now, call.arg.second,
                                                      call.arg.fetched)]]
  /\ UNCHANGED <<now, env, recentReadyToMergeEvents, recentEvents, directory, task, rc,
                 statusMappings, deploymentEvents>>

\* sendPRNotification for pull_request.opened, from its gate to its return
\* value, with the inputs of the resolution.
NotifyPullRequest ==
  /\ rc.pc = "input"
  /\ LET n == Len(determineRecipients(env, directory, rc.pr, rc.custom, rc.config).emails)
     IN \E outcome \in [1..n -> {"sent", "failed"}] :
          rc' = [rc EXCEPT !.pc = "notified",
                           !.result = sendPRNotification(env, Context(TRUE, rc.pr), rc.config,
                                                         "pull_request", "opened", rc.custom,
                                                         directory, outcome)]
  /\ UNCHANGED <<now, env, recentReadyToMergeEvents, recentEvents, directory, task, call, statusMappings,
                 deploymentEvents>>

\* ------------------------------------------------------------ specification
\* What the environment may deliver and answer in one specification.
\* Concurrent handlers: the triggering deliveries for one repository, the
\* owner's address public or not, the category switches off.
MainScope ==
  [webhooks |-> {w \in Webhooks : w.hasPRs /\ w.reviewState # "CHANGES_REQUESTED"
                                  /\ w.conclusion # "failure"},
   repos |-> {"r1"},
   names |-> {"A"}, listThrows |-> {FALSE}, listings |-> {<<PassedCheck>>},
   fetched |-> {"clean", "unstable", "dirty", "null", ApiError},
   dirs |-> {d \in Directories : d["bob"] = NoEmail /\ d["carol"] = NoEmail},
   outcomes |-> {o \in Outcomes : o[1] \in {"sent", "failed"} /\ \A i \in 1..MaxList : o[i] = o[1]}]
MainEnvs ==
  {e \in Envs : e["additional_recipients"] /\ \A c \in Categories : ~e[c]}

Init ==
  /\ now = 0
  /\ env \in MainEnvs
  /\ recentReadyToMergeEvents = << >>
  /\ recentEvents = << >>
  /\ directory \in MainScope.dirs
  /\ task = [t \in Tasks |-> IdleTask]
  /\ statusMappings = STATUS_MAPPINGS
  /\ deploymentEvents = << >>
  /\ call = NoCall
  /\ rc = NoResolution

\* What a delivery to the running app can do next.
AppStep(t, sc) ==
  \/ ReceiveUnregistered(t, sc)
  \/ HandlePullRequest(t, sc)
  \/ PullRequestNotified(t, sc)
  \/ EvaluationFetched(t, sc)
  \/ EvaluationSent(t, sc)
  \/ HandleCheckRun(t, sc)
  \/ CheckRunListed(t, sc)
  \/ CheckRunFetched(t, sc)
  \/ CheckRunNotified(t, sc)

Next == Tick \/ \E t \in Tasks : AppStep(t, MainScope)

Spec == Init /\ [][Next]_vars

\* One webhook handled alone, for every delivery, every answer of pulls.get
\* and every setting of the switches its path reads, from a dedup map that
\* is empty or holds a record of this pull request, fresh or stale.
OneScope ==
  [webhooks |-> Webhooks, repos |-> {"r1"},
   names |-> {"A"}, listThrows |-> {FALSE}, listings |-> {<<PassedCheck>>, <<FailedCheck>>},
   fetched |-> MergeableStates \cup {ApiError},
   dirs |-> {d \in Directories : d["carol"] = NoEmail},
   outcomes |-> Outcomes]
OneEnvs ==
  {e \in Envs : e["additional_recipients"] /\ e["lifecycle"] /\ e["comments"] /\ e["deployments"]}

InitOne ==
  /\ now \in {0, MaxTicks * TickMs}
  /\ env \in OneEnvs
  /\ recentReadyToMergeEvents \in {<< >>, trackRecentEvent(<< >>, eventKey(1), 0)}
  /\ recentEvents = << >>
  /\ directory \in OneScope.dirs
  /\ task = [t \in Tasks |-> IdleTask]
  /\ statusMappings = STATUS_MAPPINGS
  /\ deploymentEvents = << >>
  /\ call = NoCall
  /\ rc = NoResolution

\* The handler may also be handed a check_suite payload by a direct call of
\* CheckRunHandler.handle, which the app itself never makes.
NextOne == \E t \in {1} : AppStep(t, OneScope) \/ HandleCheckSuite(t, OneScope)

SpecOne == InitOne /\ [][NextOne]_vars

\* One recipient resolution and its dispatch, for every pull request, explicit
\* list, configured recipients, directory and setting of the flag.
RecipientPRs ==
  {[repo |-> "r1", number |-> 1, user |-> "alice", assignees |-> a, requested_reviewers |-> r] :
     a \in SeqsUpTo({"alice", "bob"}, MaxList) \cup {<<"bob", "carol">>},
     r \in {<<>>, <<"bob">>, <<"carol">>}}
RecipientCustoms ==
  {NoList} \cup SeqsUpTo({"alice@x.io", "bob@x.io", "lead@x.io"}, MaxList)
RecipientConfigs ==
  {NoConfigured,
   [emails |-> <<"bob@x.io">>, usernames |-> <<>>],
   [emails |-> <<"lead@x.io">>, usernames |-> <<"carol">>]}
RecipientEnvs ==
  {e \in Envs : e["ready_to_merge"] /\ \A c \in Categories : e[c]}

InitRecipients ==
  /\ now = 0
  /\ env \in RecipientEnvs
  /\ recentReadyToMergeEvents = << >>
  /\ recentEvents = << >>
  /\ directory \in Directories
  /\ task = [t \in Tasks |-> IdleTask]
  /\ statusMappings = STATUS_MAPPINGS
  /\ deploymentEvents = << >>
  /\ call = NoCall
  /\ \E pr \in RecipientPRs, custom \in RecipientCustoms, config \in RecipientConfigs :
       rc = [NoResolution EXCEPT !.pc = "input", !.pr = pr, !.custom = custom,
                                 !.config = config]

NextRecipients == ResolveRecipients \/ DispatchResolved \/ NotifyPullRequest

SpecRecipients == InitRecipients /\ [][NextRecipients]_vars

\* One bulk send, for every recipient list (repeated addresses and the empty
\* list included) and every combination of per-recipient outcomes.
InitDispatch ==
  /\ now = 0
  /\ env \in RecipientEnvs
  /\ recentReadyToMergeEvents = << >>
  /\ recentEvents = << >>
  /\ directory = [u \in Users |-> EmailOf(u)]
  /\ task = [t \in Tasks |-> IdleTask]
  /\ statusMappings = STATUS_MAPPINGS
  /\ deploymentEvents = << >>
  /\ call = NoCall
  /\ \E list \in SeqsUpTo({"alice@x.io", "bob@x.io", "lead@x.io"}, MaxList + 1) :
       rc = [NoResolution EXCEPT !.pc = "bulk", !.emails = list]

NextDispatch == SendBulk

SpecDispatch == InitDispatch /\ [][NextDispatch]_vars

\* The gate asked once, for every setting of the switches and every pair.
InitGate ==
  /\ now = 0
  /\ env \in {e \in Envs : e["additional_recipients"]}
  /\ recentReadyToMergeEvents = << >>
  /\ recentEvents = << >>
  /\ directory = [u \in Users |-> EmailOf(u)]
  /\ task = [t \in Tasks |-> IdleTask]
  /\ statusMappings = STATUS_MAPPINGS
  /\ deploymentEvents = << >>
  /\ rc = NoResolution
  /\ \E eventType \in EventTypes, action \in Actions :
       call = [NoCall EXCEPT !.op = "gate?",
                             !.arg = [eventType |-> eventType, action |-> action]]

NextGate == AskGate

SpecGate == InitGate /\ [][NextGate]_vars

\* One check-run listing analysed: every listing of up to MaxChecks runs
\* of every kind, and the listings of five runs that passed, failed or are
\* in progress; the triggering check is the first of the listing.
CheckListings ==
  {CheckRuns(kinds) : kinds \in SeqsUpTo(CheckKinds, MaxChecks)}
  \cup {CheckRuns(kinds) :
          kinds \in [1..5 -> {PassedCheck, FailedCheck, RunningCheck}]}
InitChecks ==
  /\ now = 0
  /\ env \in RecipientEnvs
  /\ recentReadyToMergeEvents = << >>
  /\ recentEvents = << >>
  /\ directory = [u \in Users |-> EmailOf(u)]
  /\ task = [t \in Tasks |-> IdleTask]
  /\ statusMappings = STATUS_MAPPINGS
  /\ deploymentEvents = << >>
  /\ rc = NoResolution
  /\ \E runs \in CheckListings, n \in {0} \cup PRNumbers :
       call = [NoCall EXCEPT !.op = "analyze?",
                             !.arg = [runs |-> runs, triggeringCheckName |-> "A",
                                      prNumber |-> n]]

NextChecks == AnalyzeCheckRuns \/ FormatCheckRunSubject

SpecChecks == InitChecks /\ [][NextChecks]_vars

\* One check_run event of any action, delivered to the app or handed to
\* the handler by a direct call.
CheckRunActionScope ==
  [webhooks |-> {Webhook("check_run", a, "none", IF a = "completed" THEN "success" ELSE "none", h) :
                   a \in {"created", "rerequested", "completed"}, h \in BOOLEAN},
   repos |-> {"r1"},
   names |-> {"A"}, listThrows |-> BOOLEAN,
   listings |-> [1..2 -> {PassedCheck, FailedCheck, RunningCheck}],
   fetched |-> {"clean", "dirty", ApiError},
   dirs |-> {d \in Directories : d["bob"] = NoEmail /\ d["carol"] = NoEmail},
   outcomes |-> {o \in Outcomes : o[1] \in {"sent", "failed"} /\ \A i \in 1..MaxList : o[i] = o[1]}]

InitCheckRunActions ==
  /\ now = 0
  /\ env \in {e \in Envs : e["additional_recipients"]
                            /\ \A c \in Categories \ {"check_results"} : ~e[c]}
  /\ recentReadyToMergeEvents = << >>
  /\ recentEvents = << >>
  /\ directory \in CheckRunActionScope.dirs
  /\ task = [t \in Tasks |-> IdleTask]
  /\ statusMappings = STATUS_MAPPINGS
  /\ deploymentEvents = << >>
  /\ call = NoCall
  /\ rc = NoResolution

NextCheckRunActions ==
  \E t \in {1} :
    \/ ReceiveUnregistered(t, CheckRunActionScope)
    \/ HandleCheckRun(t, CheckRunActionScope)
    \/ HandleCheckRunAction(t, CheckRunActionScope)
    \/ CheckRunListed(t, CheckRunActionScope)
    \/ CheckRunFetched(t, CheckRunActionScope)
    \/ CheckRunNotified(t, CheckRunActionScope)
    \/ EvaluationFetched(t, CheckRunActionScope)
    \/ EvaluationSent(t, CheckRunActionScope)

SpecCheckRunActions == InitCheckRunActions /\ [][NextCheckRunActions]_vars

\* Deployment events for one commit of one pull request, delivered once or
\* again, with the deployments category on or off.
DeploymentScope ==
  [webhooks |-> {Webhook("deployment", "created", "none", "none", h) : h \in BOOLEAN}
                \cup {Webhook("deployment_status", state, "none", "none", h) :
                        state \in DeploymentStates, h \in BOOLEAN},
   repos |-> {"r1"},
   dirs |-> {d \in Directories : d["bob"] = NoEmail /\ d["carol"] = NoEmail}]

InitDeployments ==
  /\ now = 0
  /\ env \in {e \in Envs : e["additional_recipients"] /\ ~e["ready_to_merge"]
                            /\ \A c \in Categories \ {"deployments"} : ~e[c]}
  /\ recentReadyToMergeEvents = << >>
  /\ recentEvents = << >>
  /\ directory \in DeploymentScope.dirs
  /\ task = [t \in Tasks |-> IdleTask]
  /\ statusMappings = STATUS_MAPPINGS
  /\ deploymentEvents = << >>
  /\ call = NoCall
  /\ rc = NoResolution

NextDeployments ==
  Tick \/ \E t \in Tasks : HandleDeployment(t, DeploymentScope) \/ DeploymentFound(t, DeploymentScope)

SpecDeployments == InitDeployments /\ [][NextDeployments]_vars

\* The evaluation of pull request 1 made twice, for every pair of states in
\* the payload, every answer of pulls.get, and a dedup map that is empty or
\* holds a record of the pull request that is fresh, at the window or stale.
InitEvaluate ==
  /\ now = MaxTicks * TickMs
  /\ env \in RecipientEnvs
  /\ recentReadyToMergeEvents = << >>
  /\ recentEvents = << >>
  /\ directory = [u \in Users |-> EmailOf(u)]
  /\ task = [t \in Tasks |-> IdleTask]
  /\ statusMappings = STATUS_MAPPINGS
  /\ deploymentEvents = << >>
  /\ rc = NoResolution
  /\ \E first \in MergeableStates, second \in MergeableStates,
        fetched \in MergeableStates \cup {ApiError},
        events \in {<< >>} \cup {trackRecentEvent(<< >>, eventKey(1), r) :
                                   r \in {x \in Times : x >= 0}} :
       call = [NoCall EXCEPT
                 !.op = "evaluate?",
                 !.arg = [first |-> [number |-> 1, mergeable_state |-> first],
                          second |-> [number |-> 1, mergeable_state |-> second],
                          fetched |-> fetched, events |-> events]]

NextEvaluate == EvaluateBoth

SpecEvaluate == InitEvaluate /\ [][NextEvaluate]_vars

\* Ready-to-merge triggers over time: pull_request.synchronize deliveries
\* for pull request 1 of two repositories, with the ready-to-merge switch
\* on, the owner's address public and the clock running past the window.
WindowScope ==
  [webhooks |-> {Webhook("pull_request", "synchronize", "none", "none", TRUE)},
   repos |-> Repos,
   fetched |-> {"clean", "unstable", "dirty"},
   dirs |-> {d \in Directories : d["alice"] # NoEmail /\ d["bob"] = NoEmail
                                  /\ d["carol"] = NoEmail},
   outcomes |-> {o \in Outcomes : o[1] \in {"sent", "failed"} /\ \A i \in 1..MaxList : o[i] = o[1]}]

InitWindow ==
  /\ now = 0
  /\ env \in {e \in Envs : e["additional_recipients"] /\ e["ready_to_merge"]
                            /\ \A c \in Categories : ~e[c]}
  /\ recentReadyToMergeEvents = << >>
  /\ recentEvents = << >>
  /\ directory \in WindowScope.dirs
  /\ task = [t \in Tasks |-> IdleTask]
  /\ statusMappings = STATUS_MAPPINGS
  /\ deploymentEvents = << >>
  /\ call = NoCall
  /\ rc = NoResolution

NextWindow ==
  \/ Tick
  \/ \E t \in Tasks :
       \/ HandlePullRequest(t, WindowScope)
       \/ PullRequestNotified(t, WindowScope)
       \/ EvaluationFetched(t, WindowScope)
       \/ EvaluationSent(t, WindowScope)

SpecWindow == InitWindow /\ [][NextWindow]_vars

\* Calls of formatStatus, one after the other, on the table as exported.
InitStatus ==
  /\ now = 0
  /\ env \in RecipientEnvs
  /\ recentReadyToMergeEvents = << >>
  /\ recentEvents = << >>
  /\ directory = [u \in Users |-> EmailOf(u)]
  /\ task = [t \in Tasks |-> IdleTask]
  /\ statusMappings = STATUS_MAPPINGS
  /\ deploymentEvents = << >>
  /\ rc = NoResolution
  /\ call = [NoCall EXCEPT !.op = "status?"]

NextStatus == FormatStatus

SpecStatus == InitStatus /\ [][NextStatus]_vars

\* The check-run handler alone: the completion events of the two checks A
\* and B of one commit of one pull request, delivered once or again, in
\* flight together or one after the other; the listing answers with every
\* state of the two checks or throws; the owner's address public or not.
CheckRunScope ==
  [webhooks |-> {w \in Webhooks : w.eventType = "check_run" /\ w.conclusion = "failure"},
   repos |-> {"r1"},
   names |-> {"A", "B"}, listThrows |-> BOOLEAN,
   listings |-> [1..2 -> {PassedCheck, FailedCheck, RunningCheck}],
   fetched |-> {"clean"},
   dirs |-> {d \in Directories : d["bob"] = NoEmail /\ d["carol"] = NoEmail},
   outcomes |-> {o \in Outcomes : o[1] \in {"sent", "failed"} /\ \A i \in 1..MaxList : o[i] = o[1]}]
CheckRunEnvs ==
  {e \in Envs : e["additional_recipients"] /\ ~e["ready_to_merge"]
                /\ \A c \in Categories \ {"check_results"} : ~e[c]}

InitCheckRuns ==
  /\ now = 0
  /\ env \in CheckRunEnvs
  /\ recentReadyToMergeEvents = << >>
  /\ recentEvents = << >>
  /\ directory \in CheckRunScope.dirs
  /\ task = [t \in Tasks |-> IdleTask]
  /\ statusMappings = STATUS_MAPPINGS
  /\ deploymentEvents = << >>
  /\ call = NoCall
  /\ rc = NoResolution

CheckRunStep(t, sc) ==
  \/ HandleCheckRun(t, sc)
  \/ CheckRunListed(t, sc)
  \/ CheckRunFetched(t, sc)
  \/ CheckRunNotified(t, sc)

NextCheckRuns == Tick \/ \E t \in Tasks : CheckRunStep(t, CheckRunScope)

SpecCheckRuns == InitCheckRuns /\ [][NextCheckRuns]_vars

\* --------------------------------------------------------------- properties
\* The deliveries the evaluator is meant to run for.
IsTrigger(w) ==
  \/ triggerOf(w) # "none"
  \/ w.eventType = "check_run" /\ w.action = "completed" /\ w.conclusion = "success" /\ w.hasPRs
  \/ w.eventType = "check_suite" /\ w.action = "completed" /\ w.hasPRs
\* The owner of the pull request has a public address.
OwnerResolvable == directory["alice"] # NoEmail
\* The states the switch over mergeable_state does not notify for.
NotReadyStates == MergeableStates \ {"clean", "unstable"}

\* C1 (as amended): of the evaluations of one pull request number whose
\* dedup checks, made when pulls.get answers, fall within one 30-minute
\* span, at most one reaches the dispatch, whatever their triggers and
\* interleaving: two that both reach it have checks more than 30 minutes apart.
C1_OneDispatchPerCheckWindow ==
  \A t1, t2 \in Tasks :
    (t1 # t2 /\ task[t1].number = task[t2].number /\ task[t1].reached /\ task[t2].reached)
      => \/ task[t1].checkTime - task[t2].checkTime > recentTime
         \/ task[t2].checkTime - task[t1].checkTime > recentTime

\* Two finished evaluations of one number, of different triggers, checked
\* within 30 minutes of each other: one reached the dispatch, one was suppressed.
C1_Witness ==
  \E t1, t2 \in Tasks :
    /\ t1 # t2 /\ task[t1].pc = "done" /\ task[t2].pc = "done"
    /\ task[t1].number = task[t2].number /\ task[t1].trigger # task[t2].trigger
    /\ task[t1].reached /\ task[t2].suppressed
    /\ task[t2].checkTime - task[t1].checkTime <= recentTime
    /\ task[t2].checkTime > task[t1].checkTime

\* C1 (as stated): of the evaluations of one pull request number that all
\* start within one 30-minute span, at most one reaches the dispatch: two
\* that both went as far as sending did not start less than 30 minutes apart.
C1_OneDispatchPerStartSpan ==
  \A t1, t2 \in Tasks :
    (t1 # t2 /\ task[t1].number = task[t2].number
     /\ task[t1].rtm.dispatches = 1 /\ task[t2].rtm.dispatches = 1)
      => \/ task[t1].evalStart - task[t2].evalStart >= recentTime
         \/ task[t2].evalStart - task[t1].evalStart >= recentTime

\* C2 (as stated, with the ready-to-merge switch on): the dedup record is
\* written only by an evaluation whose dispatch succeeded, so a failed or
\* skipped dispatch never suppresses a later trigger: an evaluation that was
\* suppressed finds another one of the same number that wrote the record
\* and whose dispatch, once over, has succeeded.
C2_SuppressedOnlyAfterSuccess ==
  \A t \in Tasks :
    (env["ready_to_merge"] /\ task[t].suppressed)
      => \E u \in Tasks \ {t} :
           /\ task[u].number = task[t].number /\ task[u].wrote
           /\ task[u].pc = "done" => task[u].rtm.success

\* C3: an evaluation whose re-fetched state is neither clean nor unstable
\* (including the null state) ends there: it dispatches nothing and leaves
\* both dedup maps as they were, stale records included.
C3_NotReadyNoSideEffects ==
  [][\A t \in Tasks :
       (task[t].pc = "rtm_fetch" /\ task'[t].pc # "rtm_fetch"
        /\ task'[t].mergeableState \in NotReadyStates)
         => /\ recentReadyToMergeEvents' = recentReadyToMergeEvents
            /\ recentEvents' = recentEvents
            /\ task'[t].pc = "done"
            /\ ~task'[t].reached /\ ~task'[t].wrote
            /\ task'[t].rtm.dispatches = 0
            /\ task'[t].eval = Result(TRUE, "not_notification_worthy", Undefined)]_vars

\* An evaluation that ended on the null state while the map held a record
\* older than the window.
C3_Witness ==
  \E t \in Tasks :
    /\ task[t].pc = "done" /\ task[t].mergeableState = "null"
    /\ task[t].trigger # "none"
    /\ \E k \in DOMAIN recentReadyToMergeEvents :
         now - recentReadyToMergeEvents[k] > recentTime

C5_EveryTriggerDispatches ==
  \A t \in Tasks :
    (/\ task[t].pc = "done" /\ IsTrigger(task[t].ev)
     /\ env["ready_to_merge"] /\ OwnerResolvable
     /\ ~task[t].suppressed
     /\ \/ task[t].mergeableState = "clean"
        \/ task[t].ev.eventType = "check_suite" /\ task[t].mergeableState = "none")
      => task[t].rtm.dispatches = 1

\* C6: whether a ready-to-merge notification is dispatched depends on the
\* ready-to-merge switch alone: off, nothing is dispatched; on, the
\* evaluation of a registered trigger that found the state ready and no
\* record dispatches whatever the category of the trigger is set to.
C6_SwitchAlone ==
  \A t \in Tasks :
    /\ ~env["ready_to_merge"] => task[t].rtm.dispatches = 0
    /\ (/\ env["ready_to_merge"] /\ task[t].pc = "done" /\ task[t].route = "app"
        /\ task[t].reached /\ OwnerResolvable)
         => task[t].rtm.dispatches = 1

\* A synchronize with the updates category off, and a review with the
\* reviews category off or a check with the checks category off, that
\* nevertheless dispatched a ready-to-merge notification.
C6_Witness ==
  \E t \in Tasks :
    /\ task[t].pc = "done" /\ task[t].rtm.dispatches = 1
    /\ task[t].notify.reason = "Notification disabled"
    /\ ~isEventEnabled(env, task[t].ev.eventType, task[t].ev.action)

\* C7: when pulls.get fails, the evaluation dispatches nothing, writes no
\* dedup record, and catches the error: it ends with {success: false, error}
\* and the handler returns its own result.
C7_FetchErrorCaught ==
  [][\A t \in Tasks :
       (task[t].pc = "rtm_fetch" /\ task'[t].pc # "rtm_fetch"
        /\ task'[t].mergeableState = ApiError)
         => /\ recentReadyToMergeEvents' = recentReadyToMergeEvents
            /\ task'[t].pc = "done"
            /\ ~task'[t].reached /\ ~task'[t].wrote
            /\ task'[t].rtm.dispatches = 0
            /\ ~task'[t].eval.success /\ task'[t].eval.error # Undefined
            /\ task'[t].result = handlerResult(task[t])]_vars

\* An evaluation ended by a failed pulls.get, the map still empty.
C7_Witness ==
  \E t \in Tasks :
    /\ task[t].pc = "done" /\ task[t].mergeableState = ApiError
    /\ task[t].trigger # "none" /\ ~task[t].eval.success
    /\ recentReadyToMergeEvents = << >>

\* The owner's address as the directory gives it, as a list of zero or one.
OwnerPart ==
  IF directory[rc.pr.user] # NoEmail THEN <<directory[rc.pr.user]>> ELSE <<>>
\* An explicit list without the owner's address.
WithoutOwner(list) == SelectSeq(list, LAMBDA e : e # directory[rc.pr.user])

\* C8: whenever the owner's address resolves, it is the first entry of the
\* resolved list, whatever explicit list, assignees, reviewers or configured
\* recipients are supplied, and the dispatch attempts it before any other.
C8_OwnerFirst ==
  (rc.pc \in {"resolved", "sent"} /\ directory[rc.pr.user] # NoEmail)
    => /\ Len(rc.emails) >= 1
       /\ rc.emails[1] = directory[rc.pr.user]
       /\ rc.pc = "sent" => (Len(rc.attempts) >= 1 /\ rc.attempts[1] = directory[rc.pr.user])

\* A dispatch to three or more recipients, the owner attempted first, from
\* an explicit list that does not start with the owner.
C8_Witness ==
  /\ rc.pc = "sent" /\ Len(rc.attempts) >= 3
  /\ rc.attempts[1] = "alice@x.io"
  /\ rc.custom # NoList /\ Len(rc.custom) >= 2 /\ rc.custom[1] # "alice@x.io"

\* C9 (as stated, for the case without an explicit list): the resolved
\* list contains no address twice, whatever mix of owner, assignee, reviewer
\* and configured addresses is supplied.
C9_NoDuplicateRecipients ==
  (rc.pc \in {"resolved", "sent"} /\ rc.custom = NoList) => NoDuplicates(rc.emails)

\* C10 (as amended): with the additional-recipients flag on and a non-empty
\* explicit list, the additional recipients are exactly that list without
\* the owner's address; with the flag off the explicit list is ignored and
\* only the owner is kept; an empty explicit list resolves as no list does.
C10_ExplicitListReplacesDefaults ==
  (rc.pc \in {"resolved", "sent"} /\ rc.custom # NoList)
    => /\ (includeAdditionalRecipients(env) /\ Len(rc.custom) > 0)
            => rc.emails = OwnerPart \o WithoutOwner(rc.custom)
       /\ ~includeAdditionalRecipients(env) => rc.emails = OwnerPart
       /\ (includeAdditionalRecipients(env) /\ Len(rc.custom) = 0)
            => rc.emails = determineRecipients(env, directory, rc.pr, NoList, rc.config).emails

\* An explicit list naming the owner and one other address, for a pull
\* request with a resolvable assignee, resolved with the flag on to the
\* owner and that one address.
C10_Witness ==
  /\ rc.pc = "resolved" /\ includeAdditionalRecipients(env)
  /\ rc.custom = <<"lead@x.io", "alice@x.io">>
  /\ Len(rc.pr.assignees) > 0 /\ rc.pr.assignees[1] = "bob" /\ directory["bob"] # NoEmail
  /\ rc.emails = <<"alice@x.io", "lead@x.io">>

\* C10 (as stated): when an explicit list is passed, for every setting of
\* the flag, the additional recipients are exactly that list without the
\* owner's address.
C10_ExplicitListAlways ==
  (rc.pc \in {"resolved", "sent"} /\ rc.custom # NoList)
    => rc.emails = OwnerPart \o WithoutOwner(rc.custom)

\* C11: with the additional-recipients flag off and no explicit list, the
\* resolved list is the owner's address alone (empty when the owner is
\* unresolved), whatever assignees, reviewers and configured recipients
\* exist, and the only identity lookup made is the owner's.
C11_FlagOffOwnerOnly ==
  (rc.pc \in {"resolved", "sent", "no_recipients"}
   /\ ~includeAdditionalRecipients(env) /\ rc.custom = NoList)
    => /\ rc.emails = OwnerPart
       /\ rc.lookups = <<rc.pr.user>>

\* A resolution with the flag off for a pull request with a resolvable
\* assignee and reviewer and a configured login and address: owner only.
C11_Witness ==
  /\ rc.pc = "resolved" /\ ~includeAdditionalRecipients(env) /\ rc.custom = NoList
  /\ rc.pr.assignees = <<"bob">> /\ rc.pr.requested_reviewers = <<"carol">>
  /\ directory["bob"] # NoEmail /\ directory["carol"] # NoEmail
  /\ rc.config.usernames = <<"carol">> /\ rc.config.emails = <<"lead@x.io">>
  /\ rc.emails = <<"alice@x.io">>

\* The case of C12: the owner unresolved, the two assignees bob and carol
\* resolved, no other recipient, the flag on (the category of the event is on
\* in every state of this specification).
TwoAssigneesNoOwner ==
  /\ rc.pc = "notified"
  /\ directory["alice"] = NoEmail /\ directory["bob"] # NoEmail /\ directory["carol"] # NoEmail
  /\ rc.pr.assignees = <<"bob", "carol">> /\ rc.pr.requested_reviewers = <<>>
  /\ rc.custom = NoList /\ rc.config = NoConfigured
  /\ includeAdditionalRecipients(env)
  /\ isEventEnabled(env, "pull_request", "opened")

\* C12 (as amended): in that case the notification is dispatched to the two
\* assignees, the result reports success when a delivery succeeded, the
\* recipient resolution's summary has prCreatorNotified = false, and the
\* result returned for the event has no prCreatorNotified field.
C12_AssigneesNotifiedWithoutOwner ==
  TwoAssigneesNoOwner
    => /\ rc.result.dispatches = 1
       /\ rc.result.recipients = <<"bob@x.io", "carol@x.io">>
       /\ rc.result.summary.total = 2
       /\ rc.result.success <=> rc.result.summary.succeeded >= 1
       /\ ~determineRecipients(env, directory, rc.pr, rc.custom, rc.config).prCreatorNotified
       /\ rc.result.prCreatorNotified = Undefined

\* The notification went to the two assignees, one delivery failed, one succeeded.
C12_Witness ==
  /\ TwoAssigneesNoOwner
  /\ rc.result.success /\ rc.result.summary.failed = 1
  /\ rc.result.recipients = <<"bob@x.io", "carol@x.io">>

\* C12 (as stated): in that case the notification is dispatched to the two
\* assignees, the result reports success when a delivery succeeded, and the
\* result returned for the event carries prCreatorNotified = false.
C12_ResultFlagged ==
  TwoAssigneesNoOwner
    => /\ rc.result.dispatches = 1
       /\ rc.result.recipients = <<"bob@x.io", "carol@x.io">>
       /\ rc.result.summary.succeeded >= 1 => rc.result.success
       /\ rc.result.prCreatorNotified = "false"

\* C13: in one bulk send every entry of the recipient list gets exactly one
\* attempt, in list order, whatever the other attempts did: a send that
\* fails or throws neither stops the later attempts nor is repeated.
C13_OneAttemptEach ==
  rc.pc = "bulk_sent"
    => /\ Len(rc.bulk.results) = Len(rc.emails)
       /\ \A i \in 1..Len(rc.emails) : rc.bulk.results[i].email = rc.emails[i]

\* Three recipients: the first send threw, the second failed, the third
\* was attempted and succeeded.
C13_Witness ==
  /\ rc.pc = "bulk_sent" /\ Len(rc.emails) = 3
  /\ rc.outcome = <<"threw", "failed", "sent">>
  /\ Len(rc.bulk.results) = 3 /\ rc.bulk.results[3].success

\* C14: the bulk result has success = true exactly when at least one
\* delivery succeeded, its counts satisfy total = succeeded + failed =
\* number of recipients, and it has one detail entry per recipient.
C14_AggregateResult ==
  rc.pc = "bulk_sent"
    => /\ rc.bulk.success <=> \E i \in 1..Len(rc.emails) : rc.outcome[i] = "sent"
       /\ rc.bulk.succeeded = Cardinality({i \in 1..Len(rc.emails) : rc.outcome[i] = "sent"})
       /\ rc.bulk.total = Len(rc.emails)
       /\ rc.bulk.total = rc.bulk.succeeded + rc.bulk.failed
       /\ Len(rc.bulk.results) = Len(rc.emails)
       /\ \A i \in 1..Len(rc.emails) : rc.bulk.results[i].success <=> rc.outcome[i] = "sent"

\* Two recipients, one delivered and one not: success with counts 1 and 1.
C14_Witness ==
  /\ rc.pc = "bulk_sent" /\ rc.outcome = <<"failed", "sent">>
  /\ rc.bulk.success /\ rc.bulk.succeeded = 1 /\ rc.bulk.failed = 1 /\ rc.bulk.total = 2

\* The fixed table of the six categories: the category of a pair, or "none".
CategoryOf(eventType, action) ==
  CASE <<eventType, action>> \in {<<"pull_request", a>> : a \in {"opened", "closed", "reopened"}}
         -> "lifecycle"
    [] <<eventType, action>> \in {<<"pull_request_review", a>> : a \in {"submitted", "dismissed"}}
         -> "reviews"
    [] <<eventType, action>> \in {<<"issue_comment", "created">>,
                                  <<"pull_request_review_comment", "created">>}
         -> "comments"
    [] <<eventType, action>> \in {<<"check_run", "completed">>, <<"check_suite", "completed">>}
         -> "check_results"
    [] <<eventType, action>> \in {<<"pull_request", a>> :
                                    a \in {"synchronize", "edited", "ready_for_review",
                                           "review_requested"}}
         -> "updates"
    [] eventType \in {"deployment", "deployment_status"} -> "deployments"
    [] OTHER -> "none"

NamesWhere(runs, Test(_)) == NamesOf(SelectSeq(runs, Test))

\* C16: analyzeCheckRuns splits the listing by status into completed and
\* not completed (total = completed + inProgress), counts a completed run
\* as passed for success, failed for failure, timed_out and
\* action_required, skipped for skipped, neutral and cancelled, and sets
\* allCompleted exactly when no run is not completed.
C16_SummaryPartition ==
  call.op = "analyze"
    => LET runs == call.arg.runs
           s == call.ret
           done(run) == run.status = "completed"
       IN /\ s.total = Len(runs)
          /\ s.total = s.completed + s.inProgress
          /\ s.completed = Len(SelectSeq(runs, done))
          /\ s.inProgressChecks = NamesWhere(runs, LAMBDA run : ~done(run))
          /\ s.passedChecks = NamesWhere(runs, LAMBDA run : done(run) /\ run.conclusion = "success")
          /\ s.failedChecks =
               NamesWhere(runs, LAMBDA run :
                 done(run) /\ run.conclusion \in {"failure", "timed_out", "action_required"})
          /\ s.skipped =
               Len(SelectSeq(runs, LAMBDA run :
                 done(run) /\ run.conclusion \in {"skipped", "neutral", "cancelled"}))
          /\ s.passed = Len(s.passedChecks) /\ s.failed = Len(s.failedChecks)
          /\ s.inProgress = Len(s.inProgressChecks)
          /\ s.allCompleted <=> \A i \in 1..Len(runs) : done(runs[i])

\* The listing {A: failure, B: success, C: in_progress} analysed.
C16_Witness ==
  /\ call.op = "analyze" /\ Len(call.arg.runs) = 3
  /\ call.arg.runs[1].conclusion = "failure" /\ call.arg.runs[2].conclusion = "success"
  /\ call.arg.runs[3].status = "in_progress"
  /\ ~call.ret.allCompleted
  /\ call.ret.passedChecks = <<"B">> /\ call.ret.failedChecks = <<"A">>
  /\ call.ret.inProgressChecks = <<"C">>

PullRequestFetched(tk) ==
  /\ tk.ev.eventType = "check_run" /\ tk.ev.hasPRs
  /\ tk.pc \in {"cr_notify", "rtm_fetch", "rtm_send"}
     \/ (tk.pc = "done" /\ tk.notify.error # "Failed to fetch PR data")

C19_FailedCallFailsSafe ==
  \A t \in Tasks :
    LET tk == task[t]
    IN tk.listed = "error" \/ tk.notify.error = "Failed to fetch PR data"
         => tk.notify.dispatches = 0

\* C20: a check_run event whose key was recorded in the last five minutes
\* by a finished handling is answered with a skipped-duplicate result and
\* dispatches nothing, where the first delivery would be notified.
C20_DuplicateSkipped ==
  \A t \in Tasks :
    LET tk == task[t]
    IN /\ tk.redelivered /\ tk.pc = "done" /\ PullRequestFetched(tk)
       /\ shouldSendNotification(env, "check_run", "completed")
       /\ directory["alice"] # NoEmail
       => tk.result.reason = "skipped_duplicate" /\ tk.notify.dispatches = 0

\* The key formatStatus looked up in the call just made.
StatusKey ==
  IF Truthy(call.arg.conclusion) THEN call.arg.conclusion ELSE call.arg.status

C27_OverrideStaysLocal ==
  /\ statusMappings = STATUS_MAPPINGS
  /\ deploymentEvents = << >>
  /\ call.op = "formatStatus" /\ ~Truthy(call.arg.emojiOverride)
     /\ StatusKey \in DOMAIN STATUS_MAPPINGS
       => call.ret = STATUS_MAPPINGS[StatusKey]

\* C22: every event handleEvent has handled got a result whose success is
\* a boolean and which, when success is false, carries a reason or an
\* error string.
C22_StructuredResult ==
  \A t \in Tasks :
    LET tk == task[t]
    IN /\ tk.pc = "done" /\ tk.route = "app"
       /\ <<tk.ev.eventType, tk.ev.action>> \in registeredEvents
       => /\ tk.result.success \in BOOLEAN
          /\ ~tk.result.success
               => tk.result.reason # Undefined \/ tk.result.error # Undefined

\* C23: a check_run event whose action is not completed, delivered to the
\* app or handed to the handler, issues no notification request, dispatches
\* nothing, starts no ready-to-merge evaluation and writes no ready-to-merge
\* record; its handling ends without success.
C23_OtherActionsIgnored ==
  \A t \in Tasks :
    LET tk == task[t]
    IN tk.ev.eventType = "check_run" /\ tk.ev.action # "completed"
         => /\ tk.requests = <<>> /\ tk.notify = NoResult
            /\ tk.evalStart = NoTime /\ tk.rtm = NoResult /\ tk.eval = NoResult
            /\ tk.pc \in {"cr_list", "done"}
            /\ recentReadyToMergeEvents = << >>
            /\ tk.pc = "done" => ~tk.result.success

\* check_run.created with an associated pull request was handed to the
\* handler, which listed the checks and returned "Action not processed".
C23_Witness ==
  /\ task[1].pc = "done" /\ task[1].route = "handler"
  /\ task[1].ev.action = "created" /\ task[1].ev.hasPRs
  /\ task[1].listed = "ok"
  /\ task[1].result.reason = "Action not processed"

\* C24: a check_run.completed event for a commit with an associated pull
\* request none of whose recipients has a resolvable address is handled to
\* its end with a result, and neither the check-run notification nor the
\* ready-to-merge notification attempts a delivery.
C24_NoRecipientNoDelivery ==
  \A t \in Tasks :
    LET tk == task[t]
    IN /\ tk.ev.eventType = "check_run" /\ tk.ev.action = "completed" /\ tk.ev.hasPRs
       /\ \A u \in Users : directory[u] = NoEmail
       => /\ tk.notify.dispatches = 0 /\ tk.rtm.dispatches = 0
          /\ tk.notify.recipients = <<>> /\ tk.rtm.recipients = <<>>
          /\ tk.pc = "done"
               => /\ ~tk.result.success
                  /\ tk.result.reason = "No notifications sent"
                  /\ tk.result.error = Undefined

\* The event handled with the category on: sendPRNotification found no
\* recipient and the handler returned its result.
C24_Witness ==
  /\ task[1].pc = "done" /\ task[1].ev.action = "completed" /\ task[1].ev.hasPRs
  /\ \A u \in Users : directory[u] = NoEmail
  /\ env["check_results"]
  /\ task[1].notify.reason = "No email recipients found"
  /\ task[1].result.reason = "No notifications sent"

\* C25: with the deployments category on, a deployment created event, or a
\* deployment_status event in a final state that was not a duplicate, whose
\* commit has an associated pull request with a resolvable owner, ends in
\* a successful result with a notification dispatched.
C25_DeploymentNotified ==
  \A t \in Tasks :
    LET tk == task[t]
    IN /\ tk.pc = "done" /\ env["deployments"] /\ directory["alice"] # NoEmail
       /\ tk.ev.hasPRs /\ tk.listed = "ok"
       /\ tk.ev.eventType = "deployment"
          \/ (tk.ev.eventType = "deployment_status"
              /\ tk.ev.action \in {"success", "failure", "error"}
              /\ tk.result.reason # "Duplicate event ignored")
       => tk.result.success /\ tk.notify.dispatches >= 1

CheckedAgainstRecord(t) ==
  /\ task[t].pc = "rtm_fetch" /\ task'[t].pc # "rtm_fetch"
  /\ task'[t].mergeableState \in {"clean", "unstable"}
  /\ eventKey(task[t].number) \in DOMAIN recentReadyToMergeEvents

\* C28: an evaluation whose fetched state is clean or unstable and which
\* finds a record written strictly more than 30 minutes before is not
\* suppressed and reaches the dispatch; one that finds a record aged
\* exactly 30 minutes or less is suppressed.
C28_SuppressionExpires ==
  [][\A t \in Tasks :
       CheckedAgainstRecord(t)
         => LET age == now - recentReadyToMergeEvents[eventKey(task[t].number)]
            IN IF age > recentTime
                 THEN task'[t].reached /\ ~task'[t].suppressed
                 ELSE task'[t].suppressed /\ ~task'[t].reached]_vars

\* The same pull request reached the dispatch twice, the second time more
\* than 30 minutes after the first evaluation wrote the record.
C28_Witness ==
  \E t1, t2 \in Tasks :
    /\ task[t1].repo = task[t2].repo /\ task[t1].number = task[t2].number
    /\ task[t1].reached /\ task[t1].wrote /\ task[t2].reached /\ task[t2].wrote
    /\ task[t2].checkTime - task[t1].checkTime > recentTime

\* C29: the step in which an evaluation is suppressed as a duplicate leaves
\* the record under its key in the map with the timestamp it had.
C29_SuppressionKeepsRecord ==
  [][\A t \in Tasks :
       ~task[t].suppressed /\ task'[t].suppressed
         => LET key == eventKey(task[t].number)
            IN /\ key \in DOMAIN recentReadyToMergeEvents
               /\ key \in DOMAIN recentReadyToMergeEvents'
               /\ recentReadyToMergeEvents'[key] = recentReadyToMergeEvents[key]]_vars

\* An evaluation was suppressed later than the record was written, and the
\* record still carries the time of the evaluation that wrote it.
C29_Witness ==
  \E t1, t2 \in Tasks :
    /\ task[t1].wrote /\ task[t2].suppressed
    /\ task[t2].checkTime > task[t1].checkTime
    /\ eventKey(task[t2].number) \in DOMAIN recentReadyToMergeEvents
    /\ recentReadyToMergeEvents[eventKey(task[t2].number)] = task[t1].checkTime

\* C30: an evaluation is suppressed only by a record that an evaluation of
\* the same pull request, same repository and same number, has written.
C30_RecordPerPullRequest ==
  \A t \in Tasks :
    task[t].suppressed
      => \E u \in Tasks \ {t} :
           /\ task[u].wrote
           /\ task[u].repo = task[t].repo /\ task[u].number = task[t].number

====
